---- MODULE Spec2Model ----
(***************************************************************************)
(* Model of the production upsert pipeline of gcp-sm-ingest                *)
(* (src/src/database/upsert_operations.py).                                *)
(*                                                                         *)
(* One load is staged (staging_data, a mapping entity name -> list of      *)
(* rows) and ProductionUpsertManager.process_upserts is run on it, up to   *)
(* MaxRuns times in sequence.  A run opens one connection with autocommit  *)
(* off, walks PROCESSING_ORDER, upserts row by row inside the one open     *)
(* transaction and commits once at the end.                                *)
(*                                                                         *)
(* A staged row is abstracted to its natural key (external entity id,      *)
(* external shop id) and to whether the Pydantic model accepts it.  A      *)
(* production record keeps its natural key and the created_at/updated_at   *)
(* stamps the SQL sets with NOW(); the clock is the number of the run.     *)
(* The external entity id 0 stands for None / SQL NULL.                    *)
(*                                                                         *)
(* Spec lets process_upserts run up to MaxRuns times on the staged load;   *)
(* SpecOnce is the same program with a single run, SpecOnceFair adds that  *)
(* a started run keeps taking its steps, SpecLedger hands the returned     *)
(* ledger to LedgerService.generate_processing_ledger                      *)
(* (src/src/services/ledger_service.py).  SpecConcurrent runs two workers  *)
(* on two loads at the same time, statement by statement.                  *)
(*                                                                         *)
(* SpecStaging and SpecPurge model StagingTableManager                     *)
(* (src/src/database/staging_tables.py): the creation of the staging       *)
(* tables, the batch insert and the read-back queries, and the retention   *)
(* purge running next to loads that stage rows.                            *)
(*                                                                         *)
(* SpecReport models ExceptionReporter                                     *)
(* (src/src/services/exception_reporter.py), SpecConnections follows the   *)
(* connection and the cursor of every database operation, SpecDispatch     *)
(* and SpecPlan model ETLDispatcher (src/src/dispatcher/main.py): the      *)
(* handling of a storage event and the processing plan of a manifest.      *)
(***************************************************************************)
EXTENDS Integers, Sequences, FiniteSets, TLC

\* ---------------------------------------------------------------- bounds
MaxStaged == 2      \* rows staged for the load, over all entity types
MaxExtId == 2       \* external entity ids 1..MaxExtId (and None)
MaxRuns == 2        \* sequential runs of process_upserts on the load
MaxClock == 2       \* days that pass while the staging store is used
MaxRetention == 1   \* retention periods 0..MaxRetention, in days
MaxId == 2          \* largest value the id column of a staging table takes
MaxErrors == 2      \* validation errors reported for one entity type
MaxRows == 1        \* rows a manifest declares for one file, 0..MaxRows
MaxJobs == 2        \* ETL jobs launched by the dispatcher

\* ------------------------------------------------- program constants/data
\* mutant of lines 60-68: vehicles before customers
PROCESSING_ORDER_Swapped ==
    << "vehicles", "customers", "invoices", "line_items", "payments",
       "inventory_parts", "suppliers" >>

PROCESSING_ORDER ==
    << "customers", "vehicles", "invoices", "line_items", "payments",
       "inventory_parts", "suppliers" >>

Entities == { PROCESSING_ORDER[i] : i \in 1..Len(PROCESSING_ORDER) }

\* mutants of line 144: every entity type, or none, is taken as independent
IsIndependent_Every(entity_name) == entity_name \in Entities
IsIndependent_None(entity_name) == entity_name \in {}

\* line 144: the entity types whose failure does not stop the run
IsIndependent(entity_name) == entity_name \in {"inventory_parts", "suppliers"}

\* A value of an Optional[str] key field: 0 is None.
IsNone(v) == v = 0

ExtIds == 0..MaxExtId
\* A load comes from one external shop: its rows carry that shop's id.
ShopIds == {1}

\* A staged row as process_upserts receives it.  A row the model rejects is
\* dropped before its key is looked at: one such row stands for all.
Row ==
    { row \in [eid : ExtIds, sid : ShopIds, valid : BOOLEAN] :
        row.valid \/ IsNone(row.eid) }

\* model_class(**row_data): raises a ValidationError for a row the model rejects
Validates(row) == row.valid

\* `col = %s` in a WHERE clause: a NULL on either side never matches
SqlEq(a, b) == ~IsNone(a) /\ ~IsNone(b) /\ a = b

\* check_sql + fetchone: the first production record with the row's natural
\* key, 0 when the SELECT returns no row.
Matches(table, row) ==
    { i \in 1..Len(table) :
        SqlEq(table[i].eid, row.eid) /\ SqlEq(table[i].sid, row.sid) }

Lookup(table, row) ==
    IF Matches(table, row) = {} THEN 0
    ELSE CHOOSE i \in Matches(table, row) : \A j \in Matches(table, row) : i <= j

\* _upsert_customer and its six siblings: UPDATE ... WHERE id = existing[0]
\* or INSERT; returns the new table and 'updated' / 'inserted'.
UpsertRecord(table, row, now) ==
    LET existing == Lookup(table, row) IN
    IF existing # 0
    THEN [table  |-> [table EXCEPT ![existing].updated_at = now],
          result |-> "updated"]
    ELSE [table  |-> Append(table, [eid |-> row.eid, sid |-> row.sid,
                                    created_at |-> now, updated_at |-> now]),
          result |-> "inserted"]

\* mutant of lines 226-232: a batch with a skipped row is reported as failed
SuccessResult_NoSkips(entity_name, n, rows_inserted, rows_updated) ==
    [entity_name |-> entity_name, rows_processed |-> n,
     rows_inserted |-> rows_inserted, rows_updated |-> rows_updated,
     success |-> (rows_inserted + rows_updated = n), error_message |-> "None"]

\* mutant of lines 226-232: rows_processed counts the rows written
SuccessResult_WrittenOnly(entity_name, n, rows_inserted, rows_updated) ==
    [entity_name |-> entity_name, rows_processed |-> rows_inserted + rows_updated,
     rows_inserted |-> rows_inserted, rows_updated |-> rows_updated,
     success |-> TRUE, error_message |-> "None"]

\* lines 226-232
SuccessResult(entity_name, n, rows_inserted, rows_updated) ==
    [entity_name |-> entity_name, rows_processed |-> n,
     rows_inserted |-> rows_inserted, rows_updated |-> rows_updated,
     success |-> TRUE, error_message |-> "None"]

\* lines 236-243
FailureResult(entity_name, n, msg) ==
    [entity_name |-> entity_name, rows_processed |-> n,
     rows_inserted |-> 0, rows_updated |-> 0,
     success |-> FALSE, error_message |-> msg]

\* mutant of conn.rollback(): the writes of the transaction stay
RolledBack_KeepsWrites(committed, working) == working

\* conn.rollback(): the working copy is discarded, the committed store stays
RolledBack(committed, working) == committed

\* conn.commit(): the working copy becomes the committed store
Committed(committed, working) == working

\* str(e) of an exception caught by the entity-level handler (line 242)
ExceptionTexts == {"", "error"}

\* mutant of lines 149, 162, 170: a failed run is reported as successful
CloseLedger_AlwaysOk(l, ok) == [l EXCEPT !.success = TRUE, !.closed = TRUE]

\* mutant of lines 149-150, 155-156, 162-163, 170-171: end_time is not set
CloseLedger_NoEndTime(l, ok) == [l EXCEPT !.success = ok]

\* lines 149-150, 155-156, 162-163, 170-171: ledger.success is decided and
\* ledger.end_time is set
CloseLedger(l, ok) == [l EXCEPT !.success = ok, !.closed = TRUE]

\* lines 111-114: the ledger as constructed; closed stands for end_time being set
NewLedger ==
    [results |-> << >>, total_rows_processed |-> 0,
     success |-> FALSE, closed |-> FALSE]

EmptyStore == [e \in Entities |-> << >>]

\* The connection an operation works over, its cursor, and whether the
\* connection has a transaction open (autocommit is off: the first statement
\* opens one).
NoConnection == [connection |-> "none", cursor |-> "none", transaction |-> FALSE]

\* get_db_connection: mysql.connector.connect(**self.db_config)
Connect == [connection |-> "open", cursor |-> "none", transaction |-> FALSE]

\* cursor = conn.cursor()
OpenCursor(c) == [c EXCEPT !.cursor = "open"]

\* cursor.execute / cursor.executemany
Executed(c) == [c EXCEPT !.transaction = TRUE]

\* conn.commit() / conn.rollback(), and a commit() that raised followed by
\* the handler's rollback()
EndTransaction(c) == [c EXCEPT !.transaction = FALSE]

\* finally: cursor.close()
CloseCursor(c) == [c EXCEPT !.cursor = "closed"]

\* mutant of get_db_connection's finally block: the connection stays open
CloseConnection_Skipped(c) == c

\* get_db_connection's finally block: connection.close(); the server ends
\* the session and discards a transaction that is still open
CloseConnection(c) == [c EXCEPT !.connection = "closed", !.transaction = FALSE]

\* the with block and the try block around the cursor are left
Release(c) == CloseConnection(CloseCursor(c))

\* ------------------------------------------------------------------ state
VARIABLES
    staged,      \* staging_data: entity name -> list of rows
    prod,        \* committed production tables: entity name -> list of records
    txn,         \* the tables as the open transaction sees them
    pc,          \* "idle" | "loop" | "rows"
    ei,          \* position of the for loop in PROCESSING_ORDER
    ri,          \* position of the row loop of _upsert_entity_data
    rows_inserted,   \* locals of _upsert_entity_data, 0 outside it
    rows_updated,
    ledger,      \* the ProcessingLedger of the current / last run
    runs,        \* number of runs started; also the clock behind NOW()
    trace,       \* history: the rows handled by the current run, in order
    prod0,       \* history: the committed store when the current run began
    prevLedger,  \* history: the ledger returned by the run before
    prevTrace,   \* history: the rows handled by the run before
    ending,      \* history: how the last run ended
    summary,     \* what generate_processing_ledger gave for the last run
    \* two workers upserting their loads concurrently
    w_rows,      \* worker -> the customers rows of its load
    w_pc,        \* worker -> "start" | "check" | "write" | "commit" | "done"
    w_ri,        \* worker -> position of its row loop
    w_txn,       \* worker -> the customers table as its transaction sees it
    w_base,      \* worker -> number of records its snapshot was taken with
    w_existing,  \* worker -> result of the last existence check
    \* the staging store
    staging,     \* entity name -> list of staged rows, in primary key order
    tables,      \* the entity names whose staging table exists
    auto_increment,  \* entity name -> next value of the id column
    clock,       \* the time, in days
    purge,       \* the open transaction of cleanup_old_staging_data
    ret,         \* the last staging operation and what it returned
    connections, \* the connection of process_upserts, of cleanup_old_staging_data
                 \* and of the last other staging operation
    \* the dispatcher
    jobs,        \* the ETL jobs launched, in order
    response     \* the last call of the dispatcher and what it returned

upsertVars == << staged, prod, txn, pc, ei, ri, rows_inserted, rows_updated,
                 ledger, runs, trace, prod0, prevLedger, prevTrace, ending >>
workerVars == << w_rows, w_pc, w_ri, w_txn, w_base, w_existing >>
stagingVars == << staging, tables, auto_increment, clock, purge, ret >>
dispatchVars == << jobs, response >>

vars == << upsertVars, summary, workerVars, stagingVars, connections, dispatchVars >>

TotalStaged ==
    LET RECURSIVE Sum(_)
        Sum(i) == IF i = 0 THEN 0 ELSE Len(staged[PROCESSING_ORDER[i]]) + Sum(i - 1)
    IN Sum(Len(PROCESSING_ORDER))

entity_name == PROCESSING_ORDER[ei]
data == staged[entity_name]

\* two workers (processes), each running process_upserts on its own load
\* over its own connection
Workers == {"A", "B"}

\* the load ids the staging operations are called with
Loads == {"L1", "L2"}

\* no cleanup_old_staging_data is under way
NoPurge ==
    [open |-> FALSE, started_at |-> 0, retention_days |-> 0,
     cutoff_date |-> 0, ci |-> 1,
     deleted |-> [e \in Entities |-> {}], total_cleaned |-> 0]

InitUpsert ==
    /\ staged = [e \in Entities |-> << >>]
    /\ prod = EmptyStore
    /\ txn = EmptyStore
    /\ pc = "idle"
    /\ ei = 1
    /\ ri = 0
    /\ rows_inserted = 0
    /\ rows_updated = 0
    /\ ledger = NewLedger
    /\ runs = 0
    /\ trace = << >>
    /\ prod0 = EmptyStore
    /\ prevLedger = NewLedger
    /\ prevTrace = << >>
    /\ ending = "none"
    /\ summary = [op |-> "none"]

\* no worker has a load
InitWorkers ==
    /\ w_rows = [w \in Workers |-> << >>]
    /\ w_pc = [w \in Workers |-> "done"]
    /\ w_ri = [w \in Workers |-> 0]
    /\ w_txn = [w \in Workers |-> << >>]
    /\ w_base = [w \in Workers |-> 0]
    /\ w_existing = [w \in Workers |-> 0]

\* the database holds no staging table yet
InitStaging ==
    /\ staging = [e \in Entities |-> << >>]
    /\ tables = {}
    /\ auto_increment = [e \in Entities |-> 1]
    /\ clock = 0
    /\ purge = NoPurge
    /\ ret = [op |-> "none"]

\* no operation has opened a connection yet
InitConnections ==
    connections = [process_upserts |-> NoConnection,
                   cleanup_old_staging_data |-> NoConnection,
                   call |-> NoConnection]

\* no event has reached the dispatcher
InitDispatch ==
    /\ jobs = << >>
    /\ response = [op |-> "none"]

Init == InitUpsert /\ InitWorkers /\ InitStaging /\ InitConnections /\ InitDispatch

\* ---------------------------------------------------------------- actions
\* The load is staged before process_upserts is first called on it.
Stage(e, row) ==
    /\ pc = "idle"
    /\ runs = 0
    /\ TotalStaged < MaxStaged
    /\ staged' = [staged EXCEPT ![e] = Append(@, row)]
    /\ UNCHANGED << prod, txn, pc, ei, ri, rows_inserted, rows_updated,
                    ledger, runs, trace, prod0, prevLedger, prevTrace, ending >>
    /\ UNCHANGED << summary, workerVars, stagingVars, connections, dispatchVars >>

\* lines 114-121: the ledger is created, the connection opens
StartRun ==
    /\ pc = "idle"
    /\ runs < MaxRuns
    /\ runs' = runs + 1
    /\ prevLedger' = ledger
    /\ prevTrace' = trace
    /\ ledger' = NewLedger
    /\ prod0' = prod
    /\ txn' = prod
    /\ trace' = << >>
    /\ ending' = "none"
    /\ pc' = "loop"
    /\ ei' = 1
    /\ ri' = 0
    /\ UNCHANGED << staged, prod, rows_inserted, rows_updated >>
    /\ connections' = [connections EXCEPT !.process_upserts = OpenCursor(Connect)]
    /\ UNCHANGED << summary, workerVars, stagingVars, dispatchVars >>

\* lines 93-98, 168-173: connect() raises; the outer handler closes the ledger
ConnectFail ==
    /\ pc = "idle"
    /\ runs < MaxRuns
    /\ runs' = runs + 1
    /\ prevLedger' = ledger
    /\ prevTrace' = trace
    /\ ledger' = CloseLedger(NewLedger, FALSE)
    /\ prod0' = prod
    /\ trace' = << >>
    /\ ending' = "connect_failed"
    /\ UNCHANGED << staged, prod, txn, pc, ei, ri, rows_inserted, rows_updated >>
    /\ connections' = [connections EXCEPT !.process_upserts = NoConnection]
    /\ UNCHANGED << summary, workerVars, stagingVars, dispatchVars >>

\* lines 126-133: no key for the entity, or an empty list: continue
SkipEntity ==
    /\ pc = "loop"
    /\ ei <= Len(PROCESSING_ORDER)
    /\ data = << >>
    /\ ei' = ei + 1
    /\ UNCHANGED << staged, prod, txn, pc, ri, rows_inserted, rows_updated,
                    ledger, runs, trace, prod0, prevLedger, prevTrace, ending >>
    /\ UNCHANGED << summary, workerVars, stagingVars, connections, dispatchVars >>

\* lines 135, 188-192: _upsert_entity_data is entered
BeginEntity ==
    /\ pc = "loop"
    /\ ei <= Len(PROCESSING_ORDER)
    /\ data # << >>
    /\ pc' = "rows"
    /\ ri' = 1
    /\ UNCHANGED << staged, prod, txn, ei, rows_inserted, rows_updated, ledger,
                    runs, trace, prod0, prevLedger, prevTrace, ending >>
    /\ UNCHANGED << summary, workerVars, stagingVars, connections, dispatchVars >>

\* lines 193-224: one iteration of the row loop.  A row the model rejects
\* and a row whose SQL statement raises are both caught by the per-row
\* handler (line 221) and skipped.
UpsertRow ==
    /\ pc = "rows"
    /\ ri <= Len(data)
    /\ LET row == data[ri] IN
       \/ /\ ~Validates(row)
          /\ trace' = Append(trace, [e |-> entity_name, r |-> ri, out |-> "invalid"])
          /\ UNCHANGED << txn, rows_inserted, rows_updated, connections >>
       \/ /\ Validates(row)
          /\ trace' = Append(trace, [e |-> entity_name, r |-> ri, out |-> "store_error"])
          /\ connections' = [connections EXCEPT !.process_upserts = Executed(@)]
          /\ UNCHANGED << txn, rows_inserted, rows_updated >>
       \/ /\ Validates(row)
          /\ LET u == UpsertRecord(txn[entity_name], row, runs) IN
             /\ txn' = [txn EXCEPT ![entity_name] = u.table]
             /\ connections' = [connections EXCEPT !.process_upserts = Executed(@)]
             /\ trace' = Append(trace, [e |-> entity_name, r |-> ri, out |-> u.result])
             /\ rows_inserted' = rows_inserted + (IF u.result = "inserted" THEN 1 ELSE 0)
             /\ rows_updated' = rows_updated + (IF u.result = "updated" THEN 1 ELSE 0)
    /\ ri' = ri + 1
    /\ UNCHANGED << staged, prod, pc, ei, ledger, runs, prod0, prevLedger, prevTrace, ending >>
    /\ UNCHANGED << summary, workerVars, stagingVars, dispatchVars >>

\* lines 138-151: the result is appended to the ledger; an unsuccessful
\* result of a dependent entity rolls back and returns the ledger.
RecordResult(result) ==
    LET appended == [ledger EXCEPT
                       !.results = Append(@, result),
                       !.total_rows_processed = @ + result.rows_processed]
    IN
    IF result.success \/ IsIndependent(entity_name)
    THEN /\ ledger' = appended
         /\ pc' = "loop"
         /\ ei' = ei + 1
         /\ UNCHANGED << prod, txn, ending, connections >>
    ELSE /\ prod' = RolledBack(prod, txn)
         /\ txn' = prod'
         /\ ledger' = CloseLedger(appended, FALSE)
         /\ pc' = "idle"
         /\ ending' = "aborted"
         /\ connections' = [connections EXCEPT
                !.process_upserts = Release(EndTransaction(@))]
         /\ ei' = 1

\* lines 226-232, then 138-151: the row loop is exhausted
FinishEntity ==
    /\ pc = "rows"
    /\ ri = Len(data) + 1
    /\ RecordResult(SuccessResult(entity_name, Len(data), rows_inserted, rows_updated))
    /\ ri' = 0
    /\ rows_inserted' = 0
    /\ rows_updated' = 0
    /\ UNCHANGED << staged, runs, trace, prod0, prevLedger, prevTrace >>
    /\ UNCHANGED << summary, workerVars, stagingVars, dispatchVars >>

\* lines 234-243, then 138-151: an exception raised in _upsert_entity_data
\* outside the per-row try block (lines 189-193, 226-232: the lookup of the
\* model class, the iteration of data, the construction of the result)
\* reaches the entity-level handler, whatever rows were handled before.
EntityFault ==
    /\ pc = "rows"
    /\ \E msg \in ExceptionTexts :
         RecordResult(FailureResult(entity_name, Len(data), msg))
    /\ trace' = Append(trace, [e |-> entity_name, r |-> ri, out |-> "fault"])
    /\ ri' = 0
    /\ rows_inserted' = 0
    /\ rows_updated' = 0
    /\ UNCHANGED << staged, runs, prod0, prevLedger, prevTrace >>
    /\ UNCHANGED << summary, workerVars, stagingVars, dispatchVars >>

\* lines 153-157: the loop is exhausted, the one transaction is committed
Commit ==
    /\ pc = "loop"
    /\ ei = Len(PROCESSING_ORDER) + 1
    /\ prod' = Committed(prod, txn)
    /\ txn' = prod'
    /\ ledger' = CloseLedger(ledger, TRUE)
    /\ pc' = "idle"
    /\ ending' = "committed"
    /\ ei' = 1
    /\ UNCHANGED << staged, ri, rows_inserted, rows_updated, runs,
                    trace, prod0, prevLedger, prevTrace >>
    /\ connections' = [connections EXCEPT
           !.process_upserts = Release(EndTransaction(@))]
    /\ UNCHANGED << summary, workerVars, stagingVars, dispatchVars >>

\* lines 154, 159-164, 168-171: commit() raises Error; the transaction is
\* rolled back and the outer handler closes the ledger
CommitFail ==
    /\ pc = "loop"
    /\ ei = Len(PROCESSING_ORDER) + 1
    /\ prod' = RolledBack(prod, txn)
    /\ txn' = prod'
    /\ ledger' = CloseLedger(ledger, FALSE)
    /\ pc' = "idle"
    /\ ending' = "commit_failed"
    /\ ei' = 1
    /\ UNCHANGED << staged, ri, rows_inserted, rows_updated, runs,
                    trace, prod0, prevLedger, prevTrace >>
    /\ connections' = [connections EXCEPT
           !.process_upserts = Release(EndTransaction(@))]
    /\ UNCHANGED << summary, workerVars, stagingVars, dispatchVars >>

Next ==
    \/ \E e \in Entities, row \in Row : Stage(e, row)
    \/ StartRun
    \/ ConnectFail
    \/ SkipEntity
    \/ BeginEntity
    \/ UpsertRow
    \/ FinishEntity
    \/ EntityFault
    \/ Commit
    \/ CommitFail

Spec == Init /\ [][Next]_vars

\* The same program, process_upserts called once on the staged load.
FirstRun == runs = 0 /\ StartRun
FirstConnectFail == runs = 0 /\ ConnectFail

NextOnce ==
    \/ \E e \in Entities, row \in Row : Stage(e, row)
    \/ FirstRun
    \/ FirstConnectFail
    \/ SkipEntity
    \/ BeginEntity
    \/ UpsertRow
    \/ FinishEntity
    \/ EntityFault
    \/ Commit
    \/ CommitFail

SpecOnce == Init /\ [][NextOnce]_vars

\* ----------------------------------------------------------- vocabulary
\* The dependency order and the entity classes as the specification states
\* them (section 4.3), independent of the program's PROCESSING_ORDER.
DependencyOrder ==
    << "customers", "vehicles", "invoices", "line_items", "payments",
       "inventory_parts", "suppliers" >>

DependentTypes == {"customers", "vehicles", "invoices", "line_items", "payments"}
IndependentTypes == {"inventory_parts", "suppliers"}

Position(name) == CHOOSE i \in 1..Len(DependencyOrder) : DependencyOrder[i] = name

\* process_upserts has returned its ledger
Returned == pc = "idle" /\ runs > 0

Outcomes == { ledger.results[i] : i \in 1..Len(ledger.results) }
OutcomesOf(name) == { o \in Outcomes : o.entity_name = name }

\* the rows of an entity the run handled, by the way the handling ended
Events(tr, name, outs) ==
    { k \in 1..Len(tr) : tr[k].e = name /\ tr[k].out \in outs }
Written == {"inserted", "updated"}
Skipped == {"invalid", "store_error"}
Handled == Written \cup Skipped

\* ------------------------------------------------------------------- C1
\* C1: an unsuccessful Upsert Outcome of a dependent entity type is the last
\* outcome of the ledger: the run has returned with success = false, no
\* outcome of a later entity type is in the ledger and no row of a later
\* entity type was handled (in particular none of line_items or payments
\* after a failure of invoices).
C1_DependentFailureStopsRun ==
    \A i \in 1..Len(ledger.results) :
        LET o == ledger.results[i] IN
        (o.entity_name \in DependentTypes /\ ~o.success) =>
            /\ i = Len(ledger.results)
            /\ Returned
            /\ ledger.closed /\ ~ledger.success
            /\ \A q \in Outcomes : Position(q.entity_name) <= Position(o.entity_name)
            /\ \A k \in 1..Len(trace) : Position(trace[k].e) <= Position(o.entity_name)
            /\ o.entity_name = "invoices" =>
                   OutcomesOf("line_items") \cup OutcomesOf("payments") = {}

\* invoices has failed while line_items or payments had rows staged
C1_Witness ==
    /\ Returned
    /\ \E o \in OutcomesOf("invoices") : ~o.success
    /\ staged["line_items"] # << >> \/ staged["payments"] # << >>

\* ------------------------------------------------------------------- C2
\* C2 as stated: after a dependent entity type has failed, the rows written
\* earlier in the run for the entity types processed before it are in the
\* committed production store.
C2_EarlierWritesStayCommitted ==
    (Returned /\ ending = "aborted") =>
        \A k \in 1..Len(trace) :
            (trace[k].out \in Written /\ trace[k].e # ledger.results[Len(ledger.results)].entity_name) =>
                \E j \in 1..Len(prod[trace[k].e]) :
                    /\ prod[trace[k].e][j].eid = staged[trace[k].e][trace[k].r].eid
                    /\ prod[trace[k].e][j].sid = staged[trace[k].e][trace[k].r].sid
                    /\ prod[trace[k].e][j].updated_at = runs

\* C2 amended: the upserts of a run are committed per load, in one
\* transaction: when a dependent entity type fails, the rollback undoes the
\* writes made earlier in the run for the entity types already processed
\* (the committed store is what it was when the run began), and the entity
\* types after the failed one are never started.
C2_RollbackUndoesWholeRun ==
    (Returned /\ ending = "aborted") =>
        /\ prod = prod0
        /\ \A k \in 1..Len(trace) :
               Position(trace[k].e) <=
                   Position(ledger.results[Len(ledger.results)].entity_name)
        /\ \A e \in Entities :
               Position(e) > Position(ledger.results[Len(ledger.results)].entity_name)
                   => OutcomesOf(e) = {}

\* line_items failed after the run had inserted an invoice
C2_Witness ==
    /\ Returned /\ ending = "aborted"
    /\ \E o \in OutcomesOf("line_items") : ~o.success
    /\ Events(trace, "invoices", {"inserted"}) # {}
    /\ OutcomesOf("invoices") # {}
    /\ staged["invoices"] # << >>

\* ------------------------------------------------------------------- C3
\* C3: a store-level error raised by a statement on a row of a dependent
\* entity type makes the outcome of that entity type unsuccessful, with an
\* error message, and the run returns a ledger with success = false that
\* holds no outcome of a later entity type.
C3_StoreErrorAbortsRun ==
    Returned =>
        \A k \in 1..Len(trace) :
            (trace[k].out = "store_error" /\ trace[k].e \in DependentTypes) =>
                /\ \E o \in OutcomesOf(trace[k].e) :
                       ~o.success /\ o.error_message # "None"
                /\ ~ledger.success
                /\ \A q \in Outcomes : Position(q.entity_name) <= Position(trace[k].e)
\* ------------------------------------------------------------------- C4
\* C4: a row that fails validation is skipped without aborting the entity
\* type.  Whenever the row loop of an entity type has run to its end, every
\* staged row of the entity was handled, in order, the rows that raised are
\* counted neither as inserted nor as updated, and the outcome has
\* success = true; and a run that was stopped by nothing but row-level
\* errors (the connection opened, no entity-level exception in a dependent
\* entity type, the commit went through) returns success = true.
NoFault(name) == Events(trace, name, {"fault"}) = {}

C4_RowFailureIsSkipped ==
    /\ \A o \in Outcomes :
           NoFault(o.entity_name) =>
               /\ o.success
               /\ Cardinality(Events(trace, o.entity_name, Handled))
                      = Len(staged[o.entity_name])
               /\ \A r \in 1..Len(staged[o.entity_name]) :
                      \E k \in Events(trace, o.entity_name, Handled) : trace[k].r = r
               /\ o.rows_inserted =
                      Cardinality(Events(trace, o.entity_name, {"inserted"}))
               /\ o.rows_updated =
                      Cardinality(Events(trace, o.entity_name, {"updated"}))
    /\ \A k \in 1..Len(trace) :
           trace[k].out = "invalid" => ~Validates(staged[trace[k].e][trace[k].r])
    /\ (Returned /\ ending = "committed") => ledger.success

\* the first row of a two-row batch failed validation, the second row was
\* inserted, and the entity and the ledger report success
C4_Witness ==
    /\ Returned /\ ledger.success
    /\ \E o \in Outcomes :
           /\ o.success /\ o.rows_processed = 2 /\ o.rows_inserted = 1
           /\ \E k \in Events(trace, o.entity_name, {"invalid"}) : trace[k].r = 1
           /\ \E k \in Events(trace, o.entity_name, {"inserted"}) : trace[k].r = 2

\* ------------------------------------------------------------------- C5
\* C5: every Upsert Outcome satisfies rows_processed = rows_inserted +
\* rows_updated + rows_failed with rows_failed >= 0, where rows_processed is
\* the number of rows staged for the entity type and rows_failed is exactly
\* the number of rows that raised a per-row error and were skipped.
RowsFailed(o) == o.rows_processed - o.rows_inserted - o.rows_updated

C5_OutcomeAccounting ==
    \A o \in Outcomes :
        /\ o.rows_processed = Len(staged[o.entity_name])
        /\ RowsFailed(o) >= 0
        /\ RowsFailed(o) = Cardinality(Events(trace, o.entity_name, Skipped))

\* C5 amended: every Upsert Outcome has rows_processed = the number of rows
\* staged for the entity type and rows_failed >= 0; in a successful outcome
\* rows_failed is exactly the number of rows that raised a per-row error and
\* were skipped; an unsuccessful outcome reports rows_inserted =
\* rows_updated = 0, so that rows_failed = rows_processed whatever happened
\* to the rows.
C5_SuccessfulOutcomeAccounting ==
    \A o \in Outcomes :
        /\ o.rows_processed = Len(staged[o.entity_name])
        /\ RowsFailed(o) >= 0
        /\ o.success =>
               RowsFailed(o) = Cardinality(Events(trace, o.entity_name, Skipped))
        /\ ~o.success => RowsFailed(o) = o.rows_processed

\* a successful outcome over two rows, one skipped and one inserted
C5_Witness ==
    \E o \in Outcomes :
        /\ o.success /\ o.rows_processed = 2
        /\ o.rows_inserted = 1 /\ o.rows_updated = 0
        /\ Cardinality(Events(trace, o.entity_name, Skipped)) = 1

\* ------------------------------------------------------------------- C6
\* C6: entity types are attempted strictly in the dependency order: the
\* entity names of the ledger's outcomes are strictly increasing in that
\* order (a subsequence of it, no entity type twice), the rows are handled
\* in that order and in list order within an entity type, and a row of an
\* entity type is handled only after the batch of every entity type
\* attempted before it has ended and its outcome is in the ledger.
C6_DependencyOrder ==
    /\ \A i, j \in 1..Len(ledger.results) :
           i < j => Position(ledger.results[i].entity_name)
                        < Position(ledger.results[j].entity_name)
    /\ \A k, l \in 1..Len(trace) :
           k < l =>
               \/ Position(trace[k].e) < Position(trace[l].e)
               \/ trace[k].e = trace[l].e /\ trace[k].r <= trace[l].r
    /\ \A k, l \in 1..Len(trace) :
           Position(trace[k].e) < Position(trace[l].e) =>
               /\ OutcomesOf(trace[k].e) # {}
               /\ \A o \in OutcomesOf(trace[k].e) :
                      o.success =>
                          Cardinality(Events(trace, trace[k].e, Handled))
                              = Len(staged[trace[k].e])

\* two entity types were attempted, both have an outcome and handled rows
C6_Witness ==
    /\ Returned
    /\ Len(ledger.results) = 2
    /\ \E k, l \in 1..Len(trace) : trace[k].e # trace[l].e

\* ------------------------------------------------------------------- C7
\* C7: an unsuccessful outcome of an independent entity type is recorded in
\* the ledger and does not stop the run: the run goes on to the final commit
\* and the other independent entity type, when it has staged rows, is
\* attempted too.
C7_IndependentFailureContinues ==
    \A o \in Outcomes :
        (o.entity_name \in IndependentTypes /\ ~o.success) =>
            /\ ~(Returned /\ ending = "aborted")
            /\ Returned =>
                   /\ ending \in {"committed", "commit_failed"}
                   /\ \A e \in IndependentTypes :
                          staged[e] # << >> => OutcomesOf(e) # {}

\* inventory_parts failed, suppliers was still attempted and the run committed
C7_Witness ==
    /\ Returned /\ ending = "committed"
    /\ \E o \in OutcomesOf("inventory_parts") : ~o.success
    /\ \E o \in OutcomesOf("suppliers") : o.success /\ o.rows_inserted = 1

\* ------------------------------------------------------------------- C8
\* C8: for every entity type with zero staged rows no row of it is handled
\* and the ledger of a run that went through holds an Upsert Outcome for the
\* entity type with rows_processed = 0 and success = true.
C8_EmptyEntityHasOutcome ==
    (Returned /\ ending = "committed") =>
        \A e \in Entities :
            staged[e] = << >> =>
                /\ Events(trace, e, Handled \cup {"fault"}) = {}
                /\ \E o \in OutcomesOf(e) : o.rows_processed = 0 /\ o.success

\* ------------------------------------------------------------------- C9
\* C9: when a run follows a successful run on identical staged data, and no
\* statement or entity fails in either run, every outcome of the second run
\* has rows_inserted = 0 and rows_updated = the number of rows that
\* succeeded, and every production table holds as many records after the
\* second run as after the first.
CleanRun(l, tr) ==
    /\ l.closed /\ l.success
    /\ \A k \in 1..Len(tr) : tr[k].out \notin {"store_error", "fault"}

C9_Idempotent ==
    (Returned /\ runs >= 2 /\ CleanRun(prevLedger, prevTrace) /\ CleanRun(ledger, trace)) =>
        /\ \A o \in Outcomes :
               /\ o.rows_inserted = 0
               /\ o.rows_updated =
                      Cardinality(Events(trace, o.entity_name, Written))
        /\ \A e \in Entities : Len(prod[e]) = Len(prod0[e])

\* ------------------------------------------------------------------ C10
\* C10: a row that is upserted comes back 'updated' exactly when a record
\* with the row's natural key (external entity id, external shop id) is in
\* the table at that moment, records written earlier in the run included,
\* and 'inserted' otherwise; an update leaves the number of records and
\* every other record as they were and an insert appends exactly one record
\* with the row's natural key.
SameNaturalKey(rec, row) == rec.eid = row.eid /\ rec.sid = row.sid

C10_UpsertDecision ==
    [][ (pc = "rows" /\ Len(trace') = Len(trace) + 1
            /\ trace'[Len(trace')].out \in Written) =>
        LET row == data[ri]
            old == txn[entity_name]
            new == txn'[entity_name]
            out == trace'[Len(trace')].out
            present == \E i \in 1..Len(old) : SameNaturalKey(old[i], row)
        IN  /\ out = "updated" <=> present
            /\ out = "inserted" <=> ~present
            /\ out = "updated" =>
                   /\ Len(new) = Len(old)
                   /\ Cardinality({ i \in 1..Len(old) : new[i] # old[i] }) <= 1
                   /\ \A i \in 1..Len(old) :
                          new[i] # old[i] => SameNaturalKey(old[i], row)
            /\ out = "inserted" =>
                   /\ Len(new) = Len(old) + 1
                   /\ \A i \in 1..Len(old) : new[i] = old[i]
                   /\ SameNaturalKey(new[Len(new)], row)
            /\ \A e \in Entities \ {entity_name} : txn'[e] = txn[e]
      ]_vars

\* ------------------------------------------------------------------ C12
\* process_upserts is a sequential program: once called it keeps taking its
\* own steps (the two loops, the result bookkeeping, the commit).  Faults of
\* the environment (EntityFault, CommitFail) are not forced to happen.
RunStep == SkipEntity \/ BeginEntity \/ UpsertRow \/ FinishEntity \/ Commit

SpecOnceFair == SpecOnce /\ WF_vars(RunStep)

Endings == {"committed", "aborted", "connect_failed", "commit_failed"}

\* C12: process_upserts terminates on every path (all entity types
\* processed, abort of the dependent chain, failure to open the connection,
\* failure of the final commit): a run that has started always returns, and
\* whenever it has returned it has returned its ledger on one of the four
\* paths, closed: end_time is set and success is decided (true exactly when
\* the commit went through).
C12_TerminatesWithClosedLedger ==
    /\ [](Returned =>
            /\ ending \in Endings
            /\ ledger.closed
            /\ ledger.success = (ending = "committed"))
    /\ ((pc # "idle") ~> Returned)

\* the final commit failed after an entity type was processed
C12_Witness ==
    /\ Returned /\ ending = "commit_failed"
    /\ ledger.closed /\ ~ledger.success
    /\ Len(ledger.results) >= 1

\* ------------------------------------------------------------------ C13
\* C13: no run fails silently: a returned ledger with success = false holds
\* at least one Upsert Outcome with success = false, and every unsuccessful
\* outcome in it carries a non-empty error message.
C13_NoSilentFailure ==
    (Returned /\ ~ledger.success) =>
        /\ \E o \in Outcomes : ~o.success
        /\ \A o \in Outcomes : ~o.success => o.error_message \notin {"", "None"}

\* ================================================================ ledger
\* LedgerService.generate_processing_ledger (src/src/services/
\* ledger_service.py), called on the ledger process_upserts returned.

\* 'customers' -> 'customers.csv' (lines 152-165)
FileName(name) == << name, ".csv" >>

\* manifest_data: a list of files, each with a name and a declared row count.
\* The manifest that declares for every entity type the rows staged for it,
\* the one that declares one row more for each, and the one without files.
ManifestDeclaring(extra) ==
    [files |-> [i \in 1..Len(PROCESSING_ORDER) |->
                  [name |-> FileName(PROCESSING_ORDER[i]),
                   rows |-> Len(staged[PROCESSING_ORDER[i]]) + extra]]]

Manifests == { ManifestDeclaring(0), ManifestDeclaring(1), [files |-> << >>] }

\* lines 152-165: the declared rows of an entity type, 0 without its file
ExpectedRows(manifest_data, name) ==
    LET hits == { i \in 1..Len(manifest_data.files) :
                    manifest_data.files[i].name = FileName(name) }
    IN  IF hits = {} THEN 0
        ELSE manifest_data.files[CHOOSE i \in hits : \A j \in hits : j <= i].rows

\* staging_row_counts as the caller reads them: the rows staged for the load
StagingRowCounts == [e \in Entities |-> Len(staged[e])]

\* production_row_counts: the records of each production table
ProductionRowCounts == [e \in Entities |-> Len(prod[e])]

\* lines 134-189: one EntitySummary per Upsert Outcome of the ledger;
\* staging_row_counts is a parameter the body never reads
CalculateEntitySummaries(processing_ledger, manifest_data, staging_row_counts) ==
    [i \in 1..Len(processing_ledger.results) |->
        LET result == processing_ledger.results[i]
            failed_rows == result.rows_processed - result.rows_inserted
                               - result.rows_updated
        IN [entity_name |-> result.entity_name,
            expected_rows |-> ExpectedRows(manifest_data, result.entity_name),
            processed_rows |-> result.rows_processed,
            inserted_rows |-> result.rows_inserted,
            updated_rows |-> result.rows_updated,
            failed_rows |-> failed_rows,
            success |-> result.success /\ failed_rows = 0]]

\* sum(iterable, key=...) of line 107: the builtin takes no keyword
\* argument, the call raises TypeError whatever the iterable is
SumWithKey(files) == [raised |-> "TypeError", value |-> 0]

\* sum([...]) of lines 108-113
RECURSIVE SumOver(_, _)
SumOver(seq, field) ==
    IF seq = << >> THEN 0
    ELSE seq[1][field] + SumOver(Tail(seq), field)

\* line 115: a float, kept as the fraction num / den
SuccessRate(total_processed, total_expected) ==
    IF total_expected > 0
    THEN [num |-> total_processed * 100, den |-> total_expected]
    ELSE [num |-> 100, den |-> 1]

\* lines 90-132: what the call gives: the TransferSummary, or the exception
\* that leaves the function
generate_processing_ledger(processing_ledger, manifest_data, staging_row_counts) ==
    LET entity_summaries ==
            CalculateEntitySummaries(processing_ledger, manifest_data,
                                     staging_row_counts)
        first_total == SumWithKey(manifest_data.files)
        total_expected == SumOver(manifest_data.files, "rows")
        total_processed == SumOver(entity_summaries, "processed_rows")
    IN  IF first_total.raised # "none"
        THEN [raised |-> first_total.raised]
        ELSE [raised |-> "none",
              total_expected_rows |-> total_expected,
              total_processed_rows |-> total_processed,
              success_rate |-> SuccessRate(total_processed, total_expected),
              overall_success |-> processing_ledger.success,
              entity_summaries |-> entity_summaries]

\* lines 296-353: per entity type, whether the staged and the production
\* row counts both equal the declared count
validate_row_counts(manifest_data, staging_row_counts, production_row_counts) ==
    [e \in Entities |->
        LET expected_count == ExpectedRows(manifest_data, e)
            staging_valid == staging_row_counts[e] = expected_count
            production_valid == production_row_counts[e] = expected_count
        IN  staging_valid /\ production_valid]

\* the ledger of the finished run is handed to generate_processing_ledger;
\* entity_summaries is the local of lines 91-93 at the moment the call ends
GenerateLedger(manifest_data) ==
    /\ Returned
    /\ summary.op = "none"
    /\ summary' = [op |-> "generate_processing_ledger",
                   manifest_data |-> manifest_data,
                   staging_row_counts |-> StagingRowCounts,
                   entity_summaries |->
                       CalculateEntitySummaries(ledger, manifest_data,
                                                StagingRowCounts),
                   result |-> generate_processing_ledger(ledger, manifest_data,
                                                         StagingRowCounts)]
    /\ UNCHANGED << upsertVars, workerVars, stagingVars, connections, dispatchVars >>

\* the counts of the finished run are handed to validate_row_counts
ValidateRowCounts(manifest_data) ==
    /\ Returned
    /\ summary.op = "none"
    /\ summary' = [op |-> "validate_row_counts",
                   manifest_data |-> manifest_data,
                   staging_row_counts |-> StagingRowCounts,
                   result |-> validate_row_counts(manifest_data, StagingRowCounts,
                                                  ProductionRowCounts)]
    /\ UNCHANGED << upsertVars, workerVars, stagingVars, connections, dispatchVars >>

NextLedger ==
    \/ NextOnce
    \/ \E manifest_data \in Manifests : GenerateLedger(manifest_data)
    \/ \E manifest_data \in Manifests : ValidateRowCounts(manifest_data)

SpecLedger == Init /\ [][NextLedger]_vars

\* ------------------------------------------------------------------ C20
\* C20: generate_processing_ledger returns a Transfer Summary whose
\* success_rate is total processed rows / total declared rows * 100, and 100
\* when no row is declared; when every entity type's declared row count
\* equals its processed row count the success_rate is exactly 100.
EveryDeclaredIsProcessed(manifest_data) ==
    \A name \in Entities :
        ExpectedRows(manifest_data, name) =
            SumOver(SelectSeq(ledger.results, LAMBDA o : o.entity_name = name),
                    "rows_processed")

C20_SuccessRate ==
    summary.op = "generate_processing_ledger" =>
        LET r == summary.result
            declared == SumOver(summary.manifest_data.files, "rows")
        IN  /\ r.raised = "none"
            /\ declared > 0 =>
                   r.success_rate.num * declared
                       = ledger.total_rows_processed * 100 * r.success_rate.den
            /\ declared = 0 => r.success_rate.num = 100 * r.success_rate.den
            /\ EveryDeclaredIsProcessed(summary.manifest_data) =>
                   r.success_rate.num = 100 * r.success_rate.den

\* ===================================================== concurrent loads
\* Two workers run process_upserts at the same time, each on its own load
\* and over its own connection (get_db_connection, autocommit off).  The
\* loads hold customers rows only.  The connection uses the isolation level
\* the server gives it (the code sets none; InnoDB's default is REPEATABLE
\* READ): the plain SELECT of the existence check reads the snapshot taken
\* by the transaction's first SELECT plus the transaction's own writes, and
\* what a transaction wrote is visible to the other one after its commit
\* only.  SELECT and INSERT/UPDATE are two statements: the other worker may
\* take steps between them.

\* the loads a worker may be given: one to MaxStaged rows the model accepts
WorkerRows == { row \in Row : Validates(row) }
WorkerLoads ==
    UNION { [1..n -> WorkerRows] : n \in 1..MaxStaged }

InitConcurrent ==
    /\ InitUpsert
    /\ InitStaging
    /\ InitConnections
    /\ InitDispatch
    /\ w_rows \in [Workers -> WorkerLoads]
    /\ w_pc = [w \in Workers |-> "check"]
    /\ w_ri = [w \in Workers |-> 1]
    /\ w_txn = [w \in Workers |-> << >>]
    /\ w_base = [w \in Workers |-> 0]
    /\ w_existing = [w \in Workers |-> 0]

\* lines 248-253: cursor.execute(check_sql); existing = cursor.fetchone()
WorkerCheck(w) ==
    /\ w_pc[w] = "check"
    /\ LET view == IF w_ri[w] = 1 THEN prod["customers"] ELSE w_txn[w] IN
       /\ w_txn' = [w_txn EXCEPT ![w] = view]
       /\ w_base' = [w_base EXCEPT ![w] = IF w_ri[w] = 1 THEN Len(view) ELSE @]
       /\ w_existing' = [w_existing EXCEPT ![w] = Lookup(view, w_rows[w][w_ri[w]])]
    /\ w_pc' = [w_pc EXCEPT ![w] = "write"]
    /\ UNCHANGED << upsertVars, summary, stagingVars, connections, dispatchVars,
                    w_rows, w_ri >>

\* lines 255-302: UPDATE ... WHERE id = existing[0] when the check found a
\* record, INSERT otherwise; then the next row, or the end of the loops
WorkerWrite(w) ==
    /\ w_pc[w] = "write"
    /\ LET row == w_rows[w][w_ri[w]]
           existing == w_existing[w]
       IN  w_txn' = [w_txn EXCEPT ![w] =
                IF existing # 0
                THEN [@ EXCEPT ![existing].updated_at = 1]
                ELSE Append(@, [eid |-> row.eid, sid |-> row.sid,
                                created_at |-> 1, updated_at |-> 1])]
    /\ w_ri' = [w_ri EXCEPT ![w] = @ + 1]
    /\ w_pc' = [w_pc EXCEPT ![w] =
                  IF w_ri[w] < Len(w_rows[w]) THEN "check" ELSE "commit"]
    /\ UNCHANGED << upsertVars, summary, stagingVars, connections, dispatchVars,
                    w_rows, w_base, w_existing >>

\* conn.commit() of one of two concurrent transactions: the records the
\* transaction inserted are added to the committed table, the records it
\* updated take its values
MergeCommitted(committed, view, base) ==
    [i \in 1..Len(committed) |->
        IF i <= base /\ view[i].updated_at >= committed[i].updated_at
        THEN view[i] ELSE committed[i]]
    \o SubSeq(view, base + 1, Len(view))

\* line 154
WorkerCommit(w) ==
    /\ w_pc[w] = "commit"
    /\ prod' = [prod EXCEPT
                  !["customers"] = MergeCommitted(@, w_txn[w], w_base[w])]
    /\ w_pc' = [w_pc EXCEPT ![w] = "done"]
    /\ UNCHANGED << staged, txn, pc, ei, ri, rows_inserted, rows_updated,
                    ledger, runs, trace, prod0, prevLedger, prevTrace, ending,
                    summary, stagingVars, connections, dispatchVars,
                    w_rows, w_ri, w_txn, w_base, w_existing >>

NextConcurrent ==
    \E w \in Workers : WorkerCheck(w) \/ WorkerWrite(w) \/ WorkerCommit(w)

SpecConcurrent == InitConcurrent /\ [][NextConcurrent]_vars

\* ------------------------------------------------------------------ C11
\* C11: when two loads that hold a row with the same natural key of the same
\* entity type are processed concurrently, each in its own transaction,
\* then after both runs have finished production holds at most one record
\* with that natural key (stated for keys without a null part).
C11_AtMostOneRecordPerKey ==
    (\A w \in Workers : w_pc[w] = "done") =>
        \A i, j \in 1..Len(prod["customers"]) :
            (/\ SqlEq(prod["customers"][i].eid, prod["customers"][j].eid)
             /\ SqlEq(prod["customers"][i].sid, prod["customers"][j].sid))
                => i = j

\* ========================================================= staging store
\* StagingTableManager (src/src/database/staging_tables.py).  A staging
\* table is the list of its rows in primary key order; a staged row keeps
\* its id (AUTO_INCREMENT), its load_id, its created_at (DEFAULT
\* CURRENT_TIMESTAMP, in days) and the csv row it was written from.  Every
\* operation opens its own connection; create, insert and the reads are
\* one step each, cleanup_old_staging_data is one step per statement since
\* its transaction stays open across the seven entity types.

\* lines 57-93: table_configs, in the order the loops walk it
TableConfigs ==
    << "customers", "vehicles", "invoices", "line_items", "payments",
       "inventory_parts", "suppliers" >>

\* the csv rows handed to insert_staging_data (staging validates nothing):
\* a row without and a row with an external id
StagingRows == { row \in Row : Validates(row) /\ row.eid <= 1 }
Batches == UNION { [1..n -> StagingRows] : n \in 0..MaxStaged }

\* the batches whose insert is let fail
TwoRows == { batch \in Batches : Len(batch) = 2 }

\* the entity types the loads of the model stage rows for and read back:
\* the first and the last of table_configs
LoadEntities == { TableConfigs[1], TableConfigs[Len(TableConfigs)] }

StagedTotal(store) ==
    LET RECURSIVE Sum(_)
        Sum(i) == IF i = 0 THEN 0 ELSE Len(store[TableConfigs[i]]) + Sum(i - 1)
    IN Sum(Len(TableConfigs))

\* mutant of lines 262-268: only the first tuple reaches the table
TaggedRows_FirstOnly(batch, load_id, next_id, now) ==
    [i \in 1..1 |->
        [id |-> next_id, load_id |-> load_id,
         created_at |-> now, row |-> batch[i]]]

\* lines 254-265: the tuples of one executemany, with the ids the table
\* gives them
TaggedRows(batch, load_id, next_id, now) ==
    [i \in 1..Len(batch) |->
        [id |-> next_id + i - 1, load_id |-> load_id,
         created_at |-> now, row |-> batch[i]]]

\* mutant of lines 140-142: the first failure ends the loop
AfterFailure_Stop(i) == Len(TableConfigs) + 1

\* lines 140-142: the failure is recorded, the loop goes on
AfterFailure(i) == i + 1

\* what may happen to one entity type in _create_single_staging_table:
\* both statements run, the DROP raises, or the CREATE raises
CreateOutcomes == {"ok", "drop_failed", "create_failed"}

\* the runs of create_staging_tables the model looks at: every entity type
\* is provisioned, or one of them fails: the first, a middle one or the last
AllOk == [e \in Entities |-> "ok"]
CreatePlans ==
    {AllOk} \cup
    { [AllOk EXCEPT ![TableConfigs[i]] = outcome] :
        i \in {1, 4, Len(TableConfigs)},
        outcome \in CreateOutcomes \ {"ok"} }

\* lines 135-142: the loop of create_staging_tables from position i on.
\* DROP TABLE and CREATE TABLE are committed by the server as they run.
RECURSIVE CreateLoop(_, _, _)
CreateLoop(i, plan, acc) ==
    IF i > Len(TableConfigs) THEN acc
    ELSE LET e == TableConfigs[i] IN
         IF plan[e] = "ok"
         THEN CreateLoop(i + 1, plan,
                  [acc EXCEPT !.staging[e] = << >>,
                              !.tables = @ \cup {e},
                              !.auto_increment[e] = 1,
                              !.results = @ @@ (e :> TRUE)])
         ELSE CreateLoop(AfterFailure(i), plan,
                  IF plan[e] = "drop_failed"
                  THEN [acc EXCEPT !.results = @ @@ (e :> FALSE)]
                  ELSE [acc EXCEPT !.staging[e] = << >>,
                                   !.tables = @ \ {e},
                                   !.auto_increment[e] = 1,
                                   !.results = @ @@ (e :> FALSE)])

\* lines 119-153: create_staging_tables(load_id).  A DDL statement waits
\* for the transactions that have used its table, so the call gets through
\* only while cleanup_old_staging_data holds no table.  commit_ok = FALSE:
\* conn.commit() (line 144) raises and the call raises (lines 146-149).
CreateStagingTables(load_id, plan, commit_ok) ==
    /\ ~(purge.open /\ purge.ci > 1)
    /\ LET done == CreateLoop(1, plan,
                       [staging |-> staging, tables |-> tables,
                        auto_increment |-> auto_increment, results |-> << >>])
       IN  /\ staging' = done.staging
           /\ tables' = done.tables
           /\ auto_increment' = done.auto_increment
           /\ ret' = [op |-> "create_staging_tables",
                      plan |-> plan, raised |-> ~commit_ok,
                      val |-> IF commit_ok THEN done.results ELSE << >>]
    /\ connections' = [connections EXCEPT
           !.call = Release(EndTransaction(Executed(OpenCursor(Connect))))]
    /\ UNCHANGED << upsertVars, summary, workerVars, dispatchVars, clock, purge >>

\* lines 229-281: insert_staging_data(entity_name, batch, load_id).  An
\* empty list returns before a connection is opened.  ok = FALSE: the
\* executemany or the commit raises Error (always so when the table does
\* not exist); whatever tuples were executed are rolled back.
InsertStagingData(e, batch, load_id, ok) ==
    /\ IF batch = << >>
       THEN /\ ok
            /\ ret' = [op |-> "insert_staging_data", entity_name |-> e,
                       load_id |-> load_id, batch |-> batch,
                       raised |-> FALSE, val |-> 0]
            /\ connections' = [connections EXCEPT !.call = NoConnection]
            /\ UNCHANGED << staging, auto_increment >>
       ELSE LET working == staging[e] \o
                              TaggedRows(batch, load_id, auto_increment[e], clock)
            IN  /\ ok => /\ e \in tables
                         /\ auto_increment[e] + Len(batch) - 1 <= MaxId
                         /\ StagedTotal(staging) + Len(batch) <= MaxStaged
                /\ staging' = [staging EXCEPT ![e] =
                       IF ok THEN Committed(@, working)
                       ELSE RolledBack(@, working)]
                /\ auto_increment' = [auto_increment EXCEPT ![e] =
                       IF ok THEN @ + Len(batch) ELSE @]
                /\ ret' = [op |-> "insert_staging_data", entity_name |-> e,
                           load_id |-> load_id, batch |-> batch,
                           raised |-> ~ok,
                           val |-> IF ok THEN Len(batch) ELSE 0]
                /\ connections' = [connections EXCEPT
                       !.call = Release(EndTransaction(Executed(OpenCursor(Connect))))]
    /\ UNCHANGED << upsertVars, summary, workerVars, dispatchVars, tables, clock, purge >>

\* mutant of lines 304, 378: the WHERE clause is missing
HasLoad_Any(rec, load_id) == TRUE

\* lines 304, 378: WHERE load_id = %s
HasLoad(rec, load_id) == rec.load_id = load_id

\* line 379: ORDER BY id
RECURSIVE OrderById(_)
OrderById(recs) ==
    IF recs = << >> THEN << >>
    ELSE LET least == CHOOSE i \in 1..Len(recs) :
                          \A j \in 1..Len(recs) : recs[i].id <= recs[j].id
         IN  << recs[least] >> \o
             OrderById(SubSeq(recs, 1, least - 1) \o
                       SubSeq(recs, least + 1, Len(recs)))

\* lines 376-382: the SELECT of get_staging_data
SelectStagingData(table, load_id) ==
    OrderById(SelectSeq(table, LAMBDA rec : HasLoad(rec, load_id)))

\* lines 302-308: the SELECT COUNT(*) of get_staging_row_count
CountStagingRows(table, load_id) ==
    Len(SelectSeq(table, LAMBDA rec : HasLoad(rec, load_id)))

\* lines 357-388: get_staging_data(entity_name, load_id); the SELECT raises
\* when the table does not exist
GetStagingData(e, load_id) ==
    /\ ret' = IF e \in tables
              THEN [op |-> "get_staging_data", entity_name |-> e,
                    load_id |-> load_id, raised |-> FALSE,
                    val |-> SelectStagingData(staging[e], load_id)]
              ELSE [op |-> "get_staging_data", entity_name |-> e,
                    load_id |-> load_id, raised |-> TRUE, val |-> << >>]
    /\ connections' = [connections EXCEPT
           !.call = Release(Executed(OpenCursor(Connect)))]
    /\ UNCHANGED << upsertVars, summary, workerVars, dispatchVars,
                    staging, tables, auto_increment, clock, purge >>

\* lines 283-314: get_staging_row_count(entity_name, load_id)
GetStagingRowCount(e, load_id) ==
    /\ ret' = IF e \in tables
              THEN [op |-> "get_staging_row_count", entity_name |-> e,
                    load_id |-> load_id, raised |-> FALSE,
                    val |-> CountStagingRows(staging[e], load_id)]
              ELSE [op |-> "get_staging_row_count", entity_name |-> e,
                    load_id |-> load_id, raised |-> TRUE, val |-> 0]
    /\ connections' = [connections EXCEPT
           !.call = Release(Executed(OpenCursor(Connect)))]
    /\ UNCHANGED << upsertVars, summary, workerVars, dispatchVars,
                    staging, tables, auto_increment, clock, purge >>

\* lines 390-440: validate_staging_tables_exist(load_id): an existing table
\* is valid whatever its row count (row_count >= 0)
ValidateStagingTablesExist(load_id) ==
    /\ ret' = [op |-> "validate_staging_tables_exist", load_id |-> load_id,
               raised |-> FALSE,
               val |-> [e \in Entities |->
                          e \in tables /\ CountStagingRows(staging[e], load_id) >= 0]]
    /\ connections' = [connections EXCEPT
           !.call = Release(Executed(OpenCursor(Connect)))]
    /\ UNCHANGED << upsertVars, summary, workerVars, dispatchVars,
                    staging, tables, auto_increment, clock, purge >>

\* mutant of line 336: created_at <= cutoff
Expired_Inclusive(rec, cutoff_date) == rec.created_at <= cutoff_date

\* line 336: WHERE created_at < %s
Expired(rec, cutoff_date) == rec.created_at < cutoff_date

Retentions == 0..MaxRetention

\* lines 326-330: cutoff_date is computed, the connection opens
CleanupBegin(retention_days) ==
    /\ ~purge.open
    /\ purge' = [NoPurge EXCEPT !.open = TRUE,
                                !.started_at = clock,
                                !.retention_days = retention_days,
                                !.cutoff_date = clock - retention_days]
    /\ connections' = [connections EXCEPT
           !.cleanup_old_staging_data = OpenCursor(Connect)]
    /\ UNCHANGED << upsertVars, summary, workerVars, dispatchVars,
                    staging, tables, auto_increment, clock, ret >>

\* lines 333-343: the DELETE on the next staging table, inside the open
\* transaction: the rows are deleted for this transaction and stay in the
\* committed table until the commit
CleanupDelete ==
    /\ purge.open
    /\ purge.ci <= Len(TableConfigs)
    /\ LET e == TableConfigs[purge.ci]
           rows_cleaned == { i \in 1..Len(staging[e]) :
                               Expired(staging[e][i], purge.cutoff_date) }
       IN  /\ e \in tables
           /\ purge' = [purge EXCEPT
                  !.deleted[e] = { staging[e][i].id : i \in rows_cleaned },
                  !.total_cleaned = @ + Cardinality(rows_cleaned),
                  !.ci = @ + 1]
    /\ connections' = [connections EXCEPT
           !.cleanup_old_staging_data = Executed(@)]
    /\ UNCHANGED << upsertVars, summary, workerVars, dispatchVars,
                    staging, tables, auto_increment, clock, ret >>

\* the staging tables without the rows a cleanup transaction deleted
Purged(store, deleted) ==
    [e \in Entities |->
        SelectSeq(store[e], LAMBDA rec : rec.id \notin deleted[e])]

\* lines 345-346, 355: the one commit after the loop; the total is returned
CleanupCommit ==
    /\ purge.open
    /\ purge.ci = Len(TableConfigs) + 1
    /\ staging' = Committed(staging, Purged(staging, purge.deleted))
    /\ ret' = [op |-> "cleanup_old_staging_data", raised |-> FALSE,
               cutoff_date |-> purge.cutoff_date,
               deleted |-> purge.deleted, val |-> purge.total_cleaned]
    /\ purge' = NoPurge
    /\ connections' = [connections EXCEPT
           !.cleanup_old_staging_data = Release(EndTransaction(@))]
    /\ UNCHANGED << upsertVars, summary, workerVars, dispatchVars,
                    tables, auto_increment, clock >>

\* lines 348-351: a DELETE (a missing table included) or the commit raises
\* Error: conn.rollback(), then the error is raised to the caller
CleanupFail ==
    /\ purge.open
    /\ staging' = RolledBack(staging, Purged(staging, purge.deleted))
    /\ ret' = [op |-> "cleanup_old_staging_data", raised |-> TRUE,
               cutoff_date |-> purge.cutoff_date,
               deleted |-> purge.deleted, val |-> 0]
    /\ purge' = NoPurge
    /\ connections' = [connections EXCEPT
           !.cleanup_old_staging_data = Release(EndTransaction(@))]
    /\ UNCHANGED << upsertVars, summary, workerVars, dispatchVars,
                    tables, auto_increment, clock >>

\* a day passes
Tick ==
    /\ clock < MaxClock
    /\ clock' = clock + 1
    /\ UNCHANGED << upsertVars, summary, workerVars, dispatchVars,
                    staging, tables, auto_increment, purge, ret, connections >>

NextStaging ==
    \/ \E load_id \in Loads, plan \in CreatePlans, commit_ok \in BOOLEAN :
           CreateStagingTables(load_id, plan, commit_ok)
    \/ \E e \in LoadEntities, load_id \in Loads :
           \/ \E batch \in Batches : InsertStagingData(e, batch, load_id, TRUE)
           \/ \E batch \in TwoRows : InsertStagingData(e, batch, load_id, FALSE)
    \/ \E e \in LoadEntities, load_id \in Loads : GetStagingData(e, load_id)
    \/ \E e \in LoadEntities, load_id \in Loads : GetStagingRowCount(e, load_id)
    \/ \E load_id \in Loads : ValidateStagingTablesExist(load_id)

\* create, insert and the read-back queries, called in any order for any
\* load
SpecStaging == Init /\ [][NextStaging]_vars

\* the seven staging tables have been created
InitPurge ==
    /\ InitUpsert
    /\ InitWorkers
    /\ InitConnections
    /\ InitDispatch
    /\ staging = [e \in Entities |-> << >>]
    /\ tables = Entities
    /\ auto_increment = [e \in Entities |-> 1]
    /\ clock = 0
    /\ purge = NoPurge
    /\ ret = [op |-> "none"]

\* the batches staged while the purge is looked at: one row at a time
RowByRow == { batch \in Batches : Len(batch) = 1 /\ batch[1].eid = 1 }

NextPurge ==
    \/ \E e \in LoadEntities, batch \in RowByRow, load_id \in Loads :
           InsertStagingData(e, batch, load_id, TRUE)
    \/ \E retention_days \in Retentions : CleanupBegin(retention_days)
    \/ CleanupDelete
    \/ CleanupCommit
    \/ CleanupFail
    \/ Tick

\* loads staging their rows while the retention purge runs, day after day
SpecPurge == InitPurge /\ [][NextPurge]_vars

\* ------------------------------------------------------------------ C14
\* C14: staged rows are immutable: over any step of any staging operation a
\* staged row stays in its table with its id, load id, creation time and
\* content, unless the step is the purge of cleanup_old_staging_data.
PurgeStep ==
    /\ purge.open /\ ~purge'.open
    /\ ret'.op = "cleanup_old_staging_data" /\ ~ret'.raised

C14_StagedRowsImmutable ==
    [][ PurgeStep \/
        \A e \in Entities : \A i \in 1..Len(staging[e]) :
            \E j \in 1..Len(staging'[e]) : staging'[e][j] = staging[e][i]
      ]_vars

\* ------------------------------------------------------------------ C15
\* C15: insert_staging_data with an empty list returns 0, raises nothing
\* and leaves every staging table as it was; with a non-empty list it either
\* appends all the given rows, in order and tagged with the load id, to the
\* entity type's table, changes no other table and returns their number, or
\* it raises and no table has changed.
C15_InsertAllOrNothing ==
    [][ ret'.op = "insert_staging_data" =>
        LET r == ret'
            old == staging[r.entity_name]
            new == staging'[r.entity_name]
        IN  /\ r.batch = << >> =>
                   /\ ~r.raised /\ r.val = 0
                   /\ staging' = staging /\ tables' = tables
            /\ (r.batch # << >> /\ ~r.raised) =>
                   /\ r.val = Len(r.batch)
                   /\ Len(new) = Len(old) + Len(r.batch)
                   /\ \A i \in 1..Len(old) : new[i] = old[i]
                   /\ \A k \in 1..Len(r.batch) :
                          /\ new[Len(old) + k].load_id = r.load_id
                          /\ new[Len(old) + k].row = r.batch[k]
                   /\ \A e \in Entities \ {r.entity_name} :
                          staging'[e] = staging[e]
            /\ r.raised => staging' = staging
      ]_vars

\* a batch of two rows was stored for a load and 2 was returned
C15_Witness ==
    /\ ret.op = "insert_staging_data" /\ ~ret.raised /\ ret.val = 2
    /\ Len(ret.batch) = 2
    /\ Len(staging[ret.entity_name]) = 2
    /\ \A i \in 1..2 : staging[ret.entity_name][i].load_id = ret.load_id

\* ------------------------------------------------------------------ C16
\* C16: create_staging_tables returns an entry for each of the seven entity
\* types, true exactly for the entity types whose table was created; a
\* failure for one entity type leaves the others provisioned: every table
\* that was created exists, and is empty, after the call, also when the
\* call ends by raising.
C16_CreatePerEntity ==
    ret.op = "create_staging_tables" =>
        /\ ~ret.raised =>
               /\ DOMAIN ret.val = Entities
               /\ Cardinality(DOMAIN ret.val) = 7
               /\ \A e \in Entities : ret.val[e] = (ret.plan[e] = "ok")
        /\ \A e \in Entities :
               ret.plan[e] = "ok" => (e \in tables /\ staging[e] = << >>)

\* the table of the first entity type could not be created, the last one's
\* was
C16_Witness ==
    /\ ret.op = "create_staging_tables" /\ ~ret.raised
    /\ ~ret.val["customers"] /\ "customers" \notin tables
    /\ ret.val["suppliers"] /\ "suppliers" \in tables

\* ------------------------------------------------------------------ C17
\* C17: the step that ends a successful cleanup_old_staging_data(retention)
\* begun at time now leaves, in each of the seven staging tables, exactly
\* the rows whose created_at is not earlier than now - retention, the rows
\* created at now - retention included, for whatever load; the number it
\* returns is the number of rows removed.
RowsIn(store) ==
    LET RECURSIVE Sum(_)
        Sum(i) == IF i = 0 THEN 0 ELSE Len(store[DependencyOrder[i]]) + Sum(i - 1)
    IN Sum(Len(DependencyOrder))

C17_PurgeBoundary ==
    [][ PurgeStep =>
        LET boundary == purge.started_at - purge.retention_days IN
        /\ \A e \in Entities :
               staging'[e] =
                   SelectSeq(staging[e], LAMBDA rec : rec.created_at >= boundary)
        /\ ret'.val = RowsIn(staging) - RowsIn(staging')
      ]_vars

\* a purge removed a row and kept a row created exactly at the boundary
C17_Witness ==
    /\ ret.op = "cleanup_old_staging_data" /\ ~ret.raised /\ ret.val >= 1
    /\ \E e \in Entities : \E i \in 1..Len(staging[e]) :
           staging[e][i].created_at = ret.cutoff_date

\* ------------------------------------------------------------------ C18
\* C18: the purge is not one transaction over all entity types: once it has
\* moved past an entity type the rows it deleted there are gone from the
\* committed table, and after a purge that failed at a later entity type
\* the rows deleted for the earlier entity types stay deleted.
C18_PurgePerEntity ==
    /\ purge.open =>
           \A i \in 1..(purge.ci - 1) :
               \A k \in 1..Len(staging[TableConfigs[i]]) :
                   staging[TableConfigs[i]][k].id
                       \notin purge.deleted[TableConfigs[i]]
    /\ (ret.op = "cleanup_old_staging_data" /\ ret.raised) =>
           \A e \in Entities : \A k \in 1..Len(staging[e]) :
               staging[e][k].id \notin ret.deleted[e]

\* ------------------------------------------------------------------ C19
\* C19: get_staging_data(entity, load) returns exactly the rows of the
\* entity type's table that carry the load id, none of another load, each
\* once, in ascending id order, and get_staging_row_count(entity, load)
\* returns the number of those rows.
RowsOfLoad(e, load_id) ==
    { i \in 1..Len(staging[e]) : staging[e][i].load_id = load_id }

C19_ReadBack ==
    /\ (ret.op = "get_staging_data" /\ ~ret.raised) =>
           LET t == staging[ret.entity_name]
               v == ret.val
           IN  /\ \A k \in 1..Len(v) : v[k].load_id = ret.load_id
               /\ \A k \in 1..Len(v) : \E i \in 1..Len(t) : t[i] = v[k]
               /\ \A i \in RowsOfLoad(ret.entity_name, ret.load_id) :
                      \E k \in 1..Len(v) : v[k] = t[i]
               /\ \A k, l \in 1..Len(v) : k < l => v[k].id < v[l].id
               /\ Len(v) = Cardinality(RowsOfLoad(ret.entity_name, ret.load_id))
    /\ (ret.op = "get_staging_row_count" /\ ~ret.raised) =>
           ret.val = Cardinality(RowsOfLoad(ret.entity_name, ret.load_id))

\* one row of the load was read back from a table that also holds a row of
\* the other load
C19_Witness ==
    /\ ret.op = "get_staging_data" /\ ~ret.raised
    /\ Len(ret.val) = 1
    /\ Len(staging[ret.entity_name]) = 2

\* ------------------------------------------------------------------ C29
\* C29: the success flag of the ledger process_upserts returns is true if
\* and only if the final commit of the run completed; and whenever the
\* returned ledger has success = false (abort of the dependent chain,
\* failure to connect, failure of the commit) the committed production store
\* is what it was when the run began: it holds none of the run's writes.
C29_SuccessIffCommitted ==
    Returned =>
        /\ ledger.success <=> ending = "committed"
        /\ ~ledger.success => prod = prod0
        /\ ~ledger.success => ending \in {"aborted", "connect_failed", "commit_failed"}

\* the commit failed after the run had written a row
C29_Witness ==
    /\ Returned /\ ending = "commit_failed" /\ ~ledger.success
    /\ \E e \in Entities : Events(trace, e, Written) # {}
    /\ prod = prod0

\* ------------------------------------------------------------------ C30
\* C30: starting from an empty production store, after any sequence of
\* runs of process_upserts, no entity type holds two production records
\* with the same natural key (external entity id, external shop id), a key
\* with an absent (null) field included.
C30_NaturalKeyUnique ==
    \A e \in Entities :
        \A i, j \in 1..Len(prod[e]) :
            (prod[e][i].eid = prod[e][j].eid /\ prod[e][i].sid = prod[e][j].sid)
                => i = j

\* ------------------------------------------------------------------ C21
\* the three counts of an entity type: declared by the manifest, staged for
\* the load, processed according to the ledger
CountsDiffer(manifest_data, staging_row_counts, name) ==
    \/ ExpectedRows(manifest_data, name) # staging_row_counts[name]
    \/ \E o \in OutcomesOf(name) :
           \/ o.rows_processed # ExpectedRows(manifest_data, name)
           \/ o.rows_processed # staging_row_counts[name]

\* C21: when the declared, the staged and the ledger counts of an entity
\* type differ, generate_processing_ledger still returns a Transfer Summary,
\* its overall success flag is the ledger's, and the summary of that entity
\* type records the three counts.
C21_ReconciliationNonFatal ==
    ( /\ summary.op = "generate_processing_ledger"
      /\ \E e \in Entities :
             CountsDiffer(summary.manifest_data, summary.staging_row_counts, e) )
    => /\ summary.result.raised = "none"
       /\ summary.result.overall_success = ledger.success
       /\ \A i \in 1..Len(ledger.results) :
              LET es == summary.result.entity_summaries[i]
                  name == ledger.results[i].entity_name
              IN  /\ es.expected_rows = ExpectedRows(summary.manifest_data, name)
                  /\ es.processed_rows = ledger.results[i].rows_processed
                  /\ "staged_rows" \in DOMAIN es
                  /\ es.staged_rows = summary.staging_row_counts[name]

\* ------------------------------------------------------------------ C22
\* C22: for every Upsert Outcome of the ledger the success flag of its
\* entity summary equals the outcome's success flag, whether or not rows of
\* the entity type were skipped.
C22_SuccessKeptApart ==
    summary.op = "generate_processing_ledger" =>
        /\ Len(summary.entity_summaries) = Len(ledger.results)
        /\ \A i \in 1..Len(ledger.results) :
               /\ summary.entity_summaries[i].entity_name
                      = ledger.results[i].entity_name
               /\ summary.entity_summaries[i].success = ledger.results[i].success

\* ===================================================== exception reports
\* ExceptionReporter (src/src/services/exception_reporter.py).  The calls
\* are made on Upsert Outcomes as process_upserts builds them; the call and
\* what it gave are kept in summary.

\* the entity types the reports are generated for: customers and vehicles
ReportEntities == { PROCESSING_ORDER[1], PROCESSING_ORDER[2] }

\* lines 77-85
critical_fields ==
    [e \in Entities |->
        CASE e = "customers" ->
                {"external_customer_id", "external_shop_id", "first_name", "last_name"}
          [] e = "vehicles" ->
                {"external_vehicle_id", "external_shop_id", "external_customer_id",
                 "year", "make", "model"}
          [] e = "invoices" ->
                {"external_document_id", "external_shop_id", "external_customer_id",
                 "external_vehicle_id"}
          [] e = "line_items" ->
                {"external_dataline_id", "external_shop_id", "external_document_id"}
          [] e = "payments" ->
                {"external_payment_id", "external_shop_id", "external_document_id"}
          [] e = "inventory_parts" ->
                {"external_part_id", "external_shop_id", "part_number"}
          [] e = "suppliers" ->
                {"external_supplier_id", "external_shop_id", "supplier_name"}]

\* ValidationError (lines 21-29): the field, the category and the severity.
\* external_shop_id is critical for every entity type, first_name for
\* customers only, email for none.
FieldNames == {"external_shop_id", "first_name", "email"}
Severities == {"ERROR", "WARNING"}

ValidationErrors ==
    [field_name : FieldNames, severity : Severities,
     error_type : {"required_field_missing", "type_conversion"}]

\* the validation errors of one entity type: up to MaxErrors errors of one
\* category
ErrorLists ==
    UNION { [1..n -> { v \in ValidationErrors :
                         v.error_type = "required_field_missing" }] :
            n \in 0..MaxErrors }

\* the processing errors of one entity type
ProcessingErrorLists == { << >>, << "error" >> }

\* the Upsert Outcomes _upsert_entity_data builds (lines 226-243)
UpsertResults ==
    UNION { UNION { { r \in { SuccessResult(e, n, i, u) : i \in 0..n, u \in 0..n } :
                        r.rows_inserted + r.rows_updated <= n }
                    \cup { FailureResult(e, n, "error") } :
                    n \in 0..MaxStaged } :
            e \in ReportEntities }

\* lines 121-124: a float, kept as the fraction num / den
ReportRate(total_records, failed_records) ==
    IF total_records > 0
    THEN [num |-> (total_records - failed_records) * 100, den |-> total_records]
    ELSE [num |-> 100, den |-> 1]

\* lines 132-142: the EntityExceptionReport, without its load id, timestamp
\* and recommendations
EntityReportOf(result, entity_validation_errors, entity_processing_errors) ==
    LET total_records == result.rows_processed
        failed_records == result.rows_processed - result.rows_inserted
                              - result.rows_updated
    IN  [entity_name |-> result.entity_name,
         total_records |-> total_records,
         failed_records |-> failed_records,
         success_rate |-> ReportRate(total_records, failed_records),
         validation_errors |-> entity_validation_errors,
         processing_errors |-> entity_processing_errors]

\* upsert_result.<attr>: AttributeError when the object has no such attribute
GetAttr(obj, attr) ==
    IF attr \in DOMAIN obj
    THEN [raised |-> "none", value |-> obj[attr]]
    ELSE [raised |-> "AttributeError", value |-> 0]

\* lines 172-213: one recommendation per category present, one for the
\* processing errors, one for the failed rows, or the one that says nothing
\* was found; the exception of line 207 leaves the function
generate_recommendations(name, validation_errors, processing_errors, upsert_result) ==
    LET error_types == { validation_errors[k].error_type :
                           k \in 1..Len(validation_errors) }
        categories == << "required_field_missing", "invalid_format",
                         "constraint_violation", "type_conversion" >>
        failed_rows == GetAttr(upsert_result, "failed_rows")
        recommendations ==
            SelectSeq(categories, LAMBDA c : c \in error_types)
            \o (IF processing_errors # << >> THEN << "processing_errors" >> ELSE << >>)
            \o (IF failed_rows.value > 0 THEN << "failed_rows" >> ELSE << >>)
    IN  IF failed_rows.raised # "none"
        THEN [raised |-> failed_rows.raised, value |-> << >>]
        ELSE [raised |-> "none",
              value |-> IF recommendations = << >>
                        THEN << "no_specific_issues" >>
                        ELSE recommendations]

\* mutant of line 222: the critical-field set is not consulted
IsCriticalError_AnyField(name, error) == error.severity = "ERROR"

\* line 222
IsCriticalError(name, error) ==
    error.field_name \in critical_fields[name] /\ error.severity = "ERROR"

\* line 228: success_rate < 50.0
HighFailureRate(rate) == rate.num < 50 * rate.den

\* lines 215-239: the entries of the digest, in the order they are appended:
\* what the entry is about stands for its text
extract_critical_errors(entity_report) ==
    LET name == entity_report.entity_name
        critical == SelectSeq(entity_report.validation_errors,
                              LAMBDA error : IsCriticalError(name, error))
    IN  [k \in 1..Len(critical) |->
            [kind |-> "critical_field", entity_name |-> name,
             field_name |-> critical[k].field_name, n |-> 1]]
        \o (IF HighFailureRate(entity_report.success_rate)
            THEN << [kind |-> "high_failure_rate", entity_name |-> name,
                     field_name |-> "", n |-> 1] >>
            ELSE << >>)
        \o (IF entity_report.processing_errors # << >>
            THEN << [kind |-> "processing_errors", entity_name |-> name,
                     field_name |-> "",
                     n |-> Len(entity_report.processing_errors)] >>
            ELSE << >>)

\* lines 112-147: the loop over upsert_results
RECURSIVE ReportLoop(_, _, _, _, _)
ReportLoop(upsert_results, validation_errors, processing_errors, entity_reports, critical_errors) ==
    IF upsert_results = << >>
    THEN [raised |-> "none", entity_reports |-> entity_reports,
          critical_errors |-> critical_errors]
    ELSE LET result == Head(upsert_results)
             name == result.entity_name
             entity_validation_errors == validation_errors[name]
             entity_processing_errors == processing_errors[name]
             recommendations ==
                 generate_recommendations(name, entity_validation_errors,
                                          entity_processing_errors, result)
             entity_report == EntityReportOf(result, entity_validation_errors,
                                             entity_processing_errors)
         IN  IF recommendations.raised # "none"
             THEN [raised |-> recommendations.raised, entity_reports |-> << >>,
                   critical_errors |-> << >>]
             ELSE ReportLoop(Tail(upsert_results), validation_errors,
                             processing_errors,
                             Append(entity_reports, entity_report),
                             critical_errors \o extract_critical_errors(entity_report))

\* lines 87-170: the ExceptionSummary, or the exception that leaves the call
generate_exception_reports(upsert_results, validation_errors, processing_errors) ==
    LET looped == ReportLoop(upsert_results, validation_errors,
                             processing_errors, << >>, << >>)
        entity_reports == looped.entity_reports
    IN  IF looped.raised # "none"
        THEN [raised |-> looped.raised]
        ELSE [raised |-> "none",
              total_entities |-> Len(entity_reports),
              failed_entities |->
                  Cardinality({ k \in 1..Len(entity_reports) :
                                  entity_reports[k].success_rate.num
                                      < 100 * entity_reports[k].success_rate.den }),
              entity_reports |-> entity_reports,
              critical_errors |-> looped.critical_errors]

\* the outcomes of a ledger: none, one for customers, or one for customers
\* and one for vehicles
OutcomeLists ==
    { << >> }
    \cup { << c >> : c \in { r \in UpsertResults : r.entity_name = "customers" } }
    \cup { << c, v >> : c \in { r \in UpsertResults : r.entity_name = "customers" },
                        v \in { r \in UpsertResults : r.entity_name = "vehicles" } }

\* validation_errors and processing_errors by entity type; an entity type
\* without errors has the empty list, as .get(entity_name, []) gives
ValidationErrorDicts ==
    [ReportEntities ->
        { << >>,
          << [field_name |-> "external_shop_id", severity |-> "ERROR",
              error_type |-> "type_conversion"] >> }]

ProcessingErrorDicts == [ReportEntities -> ProcessingErrorLists]

GenerateExceptionReports(upsert_results, validation_errors, processing_errors) ==
    /\ summary.op = "none"
    /\ summary' = [op |-> "generate_exception_reports",
                   upsert_results |-> upsert_results,
                   validation_errors |-> validation_errors,
                   processing_errors |-> processing_errors,
                   result |-> generate_exception_reports(
                                  upsert_results, validation_errors,
                                  processing_errors)]
    /\ UNCHANGED << upsertVars, workerVars, stagingVars, connections, dispatchVars >>

\* _extract_critical_errors called on the report lines 132-142 build for an
\* outcome
ExtractCriticalErrors(upsert_result, entity_validation_errors, entity_processing_errors) ==
    /\ summary.op = "none"
    /\ LET entity_report == EntityReportOf(upsert_result, entity_validation_errors,
                                           entity_processing_errors)
       IN  summary' = [op |-> "_extract_critical_errors",
                       upsert_result |-> upsert_result,
                       entity_report |-> entity_report,
                       result |-> extract_critical_errors(entity_report)]
    /\ UNCHANGED << upsertVars, workerVars, stagingVars, connections, dispatchVars >>

NextReport ==
    \/ \E upsert_results \in OutcomeLists,
          validation_errors \in ValidationErrorDicts,
          processing_errors \in ProcessingErrorDicts :
          GenerateExceptionReports(upsert_results, validation_errors,
                                   processing_errors)
    \/ \E upsert_result \in UpsertResults,
          entity_validation_errors \in ErrorLists,
          entity_processing_errors \in ProcessingErrorLists :
          ExtractCriticalErrors(upsert_result, entity_validation_errors,
                                entity_processing_errors)

SpecReport == Init /\ [][NextReport]_vars

\* ------------------------------------------------------------------ C23
\* the entries of one kind in a digest
EntriesOf(digest, kind) == { k \in 1..Len(digest) : digest[k].kind = kind }

\* the validation errors of a report on a critical field of its entity type
OnCriticalField(entity_report) ==
    { k \in 1..Len(entity_report.validation_errors) :
        entity_report.validation_errors[k].field_name
            \in critical_fields[entity_report.entity_name] }

\* C23 as stated: the digest of an entity report holds one entry for every
\* validation error on a critical field of the entity type, one entry when
\* the success rate is below 50%, one entry when there is a processing
\* error, and nothing else.
C23_DigestEntries ==
    summary.op = "_extract_critical_errors" =>
        LET entity_report == summary.entity_report
            digest == summary.result
        IN  /\ Cardinality(EntriesOf(digest, "critical_field"))
                   = Cardinality(OnCriticalField(entity_report))
            /\ Cardinality(EntriesOf(digest, "high_failure_rate"))
                   = IF entity_report.success_rate.num
                          < 50 * entity_report.success_rate.den THEN 1 ELSE 0
            /\ Cardinality(EntriesOf(digest, "processing_errors"))
                   = IF entity_report.processing_errors # << >> THEN 1 ELSE 0
            /\ \A k \in 1..Len(digest) :
                   digest[k].kind \in {"critical_field", "high_failure_rate",
                                       "processing_errors"}

\* C23 amended: the entries for validation errors are those on a critical
\* field whose severity is ERROR; a validation error of another severity
\* gets no entry, whatever its field.
C23_DigestEntriesOfSeverityError ==
    summary.op = "_extract_critical_errors" =>
        LET entity_report == summary.entity_report
            digest == summary.result
            errors == entity_report.validation_errors
        IN  /\ Cardinality(EntriesOf(digest, "critical_field"))
                   = Cardinality({ k \in OnCriticalField(entity_report) :
                                     errors[k].severity = "ERROR" })
            /\ \A k \in EntriesOf(digest, "critical_field") :
                   /\ digest[k].entity_name = entity_report.entity_name
                   /\ \E j \in OnCriticalField(entity_report) :
                          /\ errors[j].severity = "ERROR"
                          /\ errors[j].field_name = digest[k].field_name
            /\ Cardinality(EntriesOf(digest, "high_failure_rate"))
                   = IF entity_report.success_rate.num
                          < 50 * entity_report.success_rate.den THEN 1 ELSE 0
            /\ Cardinality(EntriesOf(digest, "processing_errors"))
                   = IF entity_report.processing_errors # << >> THEN 1 ELSE 0
            /\ \A k \in 1..Len(digest) :
                   digest[k].kind \in {"critical_field", "high_failure_rate",
                                       "processing_errors"}

\* a report with an ERROR and a WARNING on critical fields, no row written
\* and a processing error: three entries
C23_Witness ==
    /\ summary.op = "_extract_critical_errors"
    /\ \E j, k \in OnCriticalField(summary.entity_report) :
           /\ summary.entity_report.validation_errors[j].severity = "ERROR"
           /\ summary.entity_report.validation_errors[k].severity = "WARNING"
    /\ summary.entity_report.total_records > 0
    /\ summary.entity_report.failed_records = summary.entity_report.total_records
    /\ summary.entity_report.processing_errors # << >>
    /\ Len(summary.result) = 3

\* ------------------------------------------------------------------ C24
\* C24: generate_exception_reports called with the Upsert Outcomes of a
\* ledger, none or some, with or without failed rows, returns without
\* raising an Exception Summary that holds one entity report per outcome, in
\* the order of the outcomes.
C24_ReportPerOutcome ==
    summary.op = "generate_exception_reports" =>
        /\ summary.result.raised = "none"
        /\ Len(summary.result.entity_reports) = Len(summary.upsert_results)
        /\ \A k \in 1..Len(summary.upsert_results) :
               summary.result.entity_reports[k].entity_name
                   = summary.upsert_results[k].entity_name

\* ------------------------------------------------------------------ C26
\* C26: for the same Upsert Outcome and the same declared row count, the
\* success rate of the entity report equals the rate the Ledger Service
\* computes: rows processed over rows expected times 100, and 100 when
\* nothing is expected.
C26_SameRateFormula ==
    summary.op = "_extract_critical_errors" =>
        \A expected \in 0..MaxStaged :
            LET mine == summary.entity_report.success_rate
                theirs == SuccessRate(summary.upsert_result.rows_processed, expected)
            IN  mine.num * theirs.den = theirs.num * mine.den

\* =========================================================== connections
\* The seven operations that work on the database, each over the connection
\* it opens itself.  No two of them share a connection, a cursor or a
\* transaction, so a behaviour here holds either one run of process_upserts
\* or calls of the staging operations, a cleanup coming after the creation
\* of the tables.
UpsertUntouched == runs = 0 /\ TotalStaged = 0 /\ pc = "idle"
StagingUntouched == ret.op = "none" /\ ~purge.open

NextConnections ==
    \/ StagingUntouched /\ NextOnce
    \/ /\ UpsertUntouched
       /\ ~purge.open
       /\ ret.op # "cleanup_old_staging_data"
       /\ NextStaging
    \/ /\ UpsertUntouched
       /\ ret.op \in {"none", "create_staging_tables", "cleanup_old_staging_data"}
       /\ \/ \E retention_days \in Retentions : CleanupBegin(retention_days)
          \/ CleanupDelete
          \/ CleanupCommit
          \/ CleanupFail

SpecConnections == Init /\ [][NextConnections]_vars

\* ------------------------------------------------------------------ C25
\* nothing of a connection is held
Released(c) ==
    /\ c.connection # "open"
    /\ c.cursor # "open"
    /\ ~c.transaction

\* the operation opened a connection and a cursor and closed both
OpenedAndClosed(c) ==
    /\ c.connection = "closed"
    /\ c.cursor = "closed"
    /\ ~c.transaction

\* C25: every operation on the database works over a connection it opened
\* itself and releases it on every exit path: once process_upserts,
\* create_staging_tables, insert_staging_data, get_staging_row_count,
\* get_staging_data, cleanup_old_staging_data or
\* validate_staging_tables_exist has returned or raised, its connection and
\* its cursor are closed and it has no transaction open.
C25_ConnectionsReleased ==
    /\ pc # "idle" =>
           /\ connections.process_upserts.connection = "open"
           /\ connections.process_upserts.cursor = "open"
    /\ pc = "idle" => Released(connections.process_upserts)
    /\ (Returned /\ ending \in {"committed", "aborted", "commit_failed"}) =>
           OpenedAndClosed(connections.process_upserts)
    /\ purge.open =>
           /\ connections.cleanup_old_staging_data.connection = "open"
           /\ connections.cleanup_old_staging_data.cursor = "open"
    /\ ~purge.open => Released(connections.cleanup_old_staging_data)
    /\ (ret.op = "cleanup_old_staging_data" /\ ~purge.open) =>
           OpenedAndClosed(connections.cleanup_old_staging_data)
    /\ Released(connections.call)
    /\ ( /\ ret.op \in {"create_staging_tables", "insert_staging_data",
                        "get_staging_row_count", "get_staging_data",
                        "validate_staging_tables_exist"}
         /\ ~(ret.op = "insert_staging_data" /\ ret.batch = << >>) ) =>
           OpenedAndClosed(connections.call)

\* the dependent chain was aborted after a statement had run: the
\* connection of the run is closed
C25_Witness ==
    /\ Returned /\ ending = "aborted"
    /\ \E e \in Entities : Events(trace, e, Written \cup {"store_error"}) # {}
    /\ OpenedAndClosed(connections.process_upserts)

\* ============================================================ dispatcher
\* ETLDispatcher (src/src/dispatcher/main.py): process_gcs_event and the
\* helpers it calls.  A file name is the pair FileName gives, an object name
\* the list of its segments between the slashes.

\* lines 185-193
processing_order ==
    << FileName("customers"), FileName("vehicles"), FileName("invoices"),
       FileName("line_items"), FileName("payments"),
       FileName("inventory_parts"), FileName("suppliers") >>

\* lines 233-239
dependency_groups ==
    << [group_name |-> "group_1", filenames |-> << FileName("customers") >>],
       [group_name |-> "group_2", filenames |-> << FileName("vehicles") >>],
       [group_name |-> "group_3", filenames |-> << FileName("invoices") >>],
       [group_name |-> "group_4",
        filenames |-> << FileName("line_items"), FileName("payments") >>],
       [group_name |-> "group_5",
        filenames |-> << FileName("inventory_parts"), FileName("suppliers") >>] >>

\* line 196: file_lookup[filename], the last entry of that name; 0 when the
\* name is not a key of the dict
FileLookup(files, filename) ==
    LET hits == { i \in 1..Len(files) : files[i].name = filename }
    IN  IF hits = {} THEN 0
        ELSE CHOOSE i \in hits : \A j \in hits : j <= i

\* mutant of line 207: a listed file is processed whatever its row count
NeedsProcessing_Listed(row_count) == row_count >= 0

\* line 207
NeedsProcessing(row_count) == row_count > 0

\* lines 162-270: _create_processing_plan(manifest_data)
create_processing_plan(manifest_data) ==
    LET files == manifest_data.files
        ToProcess(filename) ==
            /\ FileLookup(files, filename) # 0
            /\ NeedsProcessing(files[FileLookup(files, filename)].rows)
        process_names == SelectSeq(processing_order, ToProcess)
        skip_names == SelectSeq(processing_order, LAMBDA f : ~ToProcess(f))
        files_to_process ==
            [k \in 1..Len(process_names) |->
                LET file_info == files[FileLookup(files, process_names[k])]
                IN  [name |-> process_names[k], rows |-> file_info.rows,
                     sha256 |-> file_info.sha256, status |-> "to_process"]]
        files_to_skip ==
            [k \in 1..Len(skip_names) |->
                IF FileLookup(files, skip_names[k]) # 0
                THEN [name |-> skip_names[k], rows |-> 0,
                      sha256 |-> files[FileLookup(files, skip_names[k])].sha256,
                      status |-> "skip_empty"]
                ELSE [name |-> skip_names[k], rows |-> 0,
                      sha256 |-> "", status |-> "missing"]]
        GroupFiles(group) ==
            SelectSeq(files_to_process,
                      LAMBDA f : \E k \in 1..Len(group.filenames) :
                                     group.filenames[k] = f.name)
        kept == SelectSeq(dependency_groups, LAMBDA g : GroupFiles(g) # << >>)
    IN  [total_files |-> Len(files),
         total_rows |-> SumOver(files_to_process, "rows"),
         processing_groups |->
             [k \in 1..Len(kept) |->
                 [group_name |-> kept[k].group_name,
                  group_files |-> GroupFiles(kept[k])]],
         files_to_process |-> files_to_process,
         files_to_skip |-> files_to_skip,
         processing_order |-> processing_order]

\* what a manifest says of one expected file: not listed, or listed with a
\* row count
Declarations ==
    { [listed |-> FALSE, rows |-> 0] }
    \cup { [listed |-> TRUE, rows |-> r] : r \in 0..MaxRows }

\* entries a manifest may hold after those of the expected files: a file
\* that is not expected, and a second entry for customers.csv with 0 rows
ExtraEntries ==
    { << >>,
      << [name |-> FileName("extra"), rows |-> 1, sha256 |-> "sha"] >>,
      << [name |-> FileName("customers"), rows |-> 0, sha256 |-> "sha"] >> }

\* the manifest with the given declarations, in processing order
ManifestOf(declared, extra) ==
    LET listed == SelectSeq([i \in 1..Len(processing_order) |-> i],
                            LAMBDA i : declared[i].listed)
    IN  [load_id |-> "L1",
         files_is_list |-> TRUE,
         files |-> [k \in 1..Len(listed) |->
                      [name |-> processing_order[listed[k]],
                       rows |-> declared[listed[k]].rows,
                       sha256 |-> "sha"]] \o extra]

\* the object names of the events; imports/{partner_id}/{load_id}/manifest.json
\* is the one the uploader writes
ObjectNames ==
    { << "customers.csv" >>,
      << "manifest.json" >>,
      << "imports", "manifest.json" >>,
      << "imports", "p1", "manifest.json" >>,
      << "imports", "p1", "l1", "manifest.json" >>,
      << "imports", "p1", "l1", "old_manifest.json" >>,
      << "imports", "p1", "l1", "customers.csv" >> }

\* event_data: with a 'name', or without one (object_name is None)
GcsEvents ==
    { [has_name |-> FALSE, path |-> << >>] }
    \cup { [has_name |-> TRUE, path |-> path] : path \in ObjectNames }

\* line 75: object_name.endswith('manifest.json'); the names of the model
\* that have this suffix
EndsWithManifest(path) ==
    path[Len(path)] \in {"manifest.json", "old_manifest.json"}

\* a complete file entry and the manifests of the events: two well-formed
\* ones, and one for each way lines 133-149 reject a manifest.  An entry or
\* a manifest without a key is a record without that field; files_is_list
\* stands for isinstance(files, list).
FileEntry == [name |-> FileName("customers"), rows |-> MaxRows, sha256 |-> "sha"]

DispatchManifests ==
    { [load_id |-> "L1", files_is_list |-> TRUE, files |-> << FileEntry >>],
      [load_id |-> "L1", files_is_list |-> TRUE, files |-> << >>],
      [files_is_list |-> TRUE, files |-> << FileEntry >>],
      [load_id |-> "L1"],
      [load_id |-> "L1", files_is_list |-> FALSE, files |-> << >>],
      [load_id |-> "L1", files_is_list |-> TRUE,
       files |-> << FileEntry, [rows |-> 0, sha256 |-> "sha"] >>],
      [load_id |-> "L1", files_is_list |-> TRUE,
       files |-> << FileEntry, [name |-> FileName("vehicles"), sha256 |-> "sha"] >>],
      [load_id |-> "L1", files_is_list |-> TRUE,
       files |-> << FileEntry, [name |-> FileName("vehicles"), rows |-> 0] >>] }

\* lines 129-130: the download of the blob and json.loads: an exception, or
\* the manifest
Downloads ==
    { [ok |-> FALSE] } \cup { [ok |-> TRUE, content |-> m] : m \in DispatchManifests }

\* lines 122-160: _download_and_validate_manifest: None, or the manifest
\* with its processing plan
download_and_validate_manifest(download) ==
    IF ~download.ok
    THEN [is_none |-> TRUE]
    ELSE LET manifest_data == download.content IN
         IF ~({"load_id", "files"} \subseteq DOMAIN manifest_data)
         THEN [is_none |-> TRUE]
         ELSE IF ~manifest_data.files_is_list
         THEN [is_none |-> TRUE]
         ELSE IF \E i \in 1..Len(manifest_data.files) :
                    ~({"name", "rows", "sha256"} \subseteq DOMAIN manifest_data.files[i])
         THEN [is_none |-> TRUE]
         ELSE [is_none |-> FALSE,
               manifest_data |-> manifest_data,
               processing_plan |-> create_processing_plan(manifest_data)]

\* the sets of files found beside the manifest
PresentFiles ==
    { { processing_order[i] : i \in 1..Len(processing_order) },
      { processing_order[i] : i \in 2..Len(processing_order) },
      { processing_order[i] : i \in 1..(Len(processing_order) - 1) },
      {} }

\* mutant of line 302: the missing files are not looked at
AllPresent_NotLookedAt(missing_files) == TRUE

\* line 302: 'valid': len(missing_files) == 0
AllPresent(missing_files) == Len(missing_files) = 0

\* lines 272-307: _validate_required_files; a file whose check raises counts
\* as missing
validate_required_files(present) ==
    LET missing_files == SelectSeq(processing_order, LAMBDA f : f \notin present)
        present_files == SelectSeq(processing_order, LAMBDA f : f \in present)
    IN  [valid |-> AllPresent(missing_files),
         present_files |-> present_files,
         missing_files |-> missing_files]

\* lines 57-120: process_gcs_event: the result, and the job when
\* run_client.run_job was called and returned
process_gcs_event(event, download, present, launch_ok) ==
    LET NoJob(status, reason) ==
            [result |-> [status |-> status, reason |-> reason],
             launched |-> FALSE,
             job |-> [partner_id |-> "", load_id |-> "", total_rows |-> 0]]
    IN
    IF ~event.has_name THEN NoJob("error", "exception")
    ELSE IF ~EndsWithManifest(event.path) THEN NoJob("ignored", "not_manifest_file")
    ELSE IF Len(event.path) < 3 THEN NoJob("error", "invalid_path_structure")
    ELSE LET partner_id == event.path[2]
             load_id == event.path[3]
             validated == download_and_validate_manifest(download)
         IN  IF validated.is_none THEN NoJob("error", "invalid_manifest")
             ELSE IF ~validate_required_files(present).valid
             THEN NoJob("error", "missing_required_files")
             ELSE IF ~launch_ok THEN NoJob("error", "exception")
             ELSE [result |-> [status |-> "success", reason |-> ""],
                   launched |-> TRUE,
                   job |-> [partner_id |-> partner_id, load_id |-> load_id,
                            total_rows |-> validated.processing_plan.total_rows]]

\* an event reaches the dispatcher.  launch_ok = FALSE: run_job raises.
ProcessGcsEvent(event, download, present, launch_ok) ==
    /\ Len(jobs) < MaxJobs
    /\ LET done == process_gcs_event(event, download, present, launch_ok) IN
       /\ jobs' = IF done.launched THEN Append(jobs, done.job) ELSE jobs
       /\ response' = [op |-> "process_gcs_event", event |-> event,
                       download |-> download, present |-> present,
                       result |-> done.result]
    /\ UNCHANGED << upsertVars, summary, workerVars, stagingVars, connections >>

\* _create_processing_plan called on a manifest that passed the validation
CreateProcessingPlan(manifest_data) ==
    /\ response.op = "none"
    /\ response' = [op |-> "_create_processing_plan",
                    manifest_data |-> manifest_data,
                    result |-> create_processing_plan(manifest_data)]
    /\ UNCHANGED << upsertVars, summary, workerVars, stagingVars, connections, jobs >>

\* events reach the dispatcher one after another
NextDispatch ==
    \E event \in GcsEvents, download \in Downloads,
       present \in PresentFiles, launch_ok \in BOOLEAN :
       ProcessGcsEvent(event, download, present, launch_ok)

SpecDispatch == Init /\ [][NextDispatch]_vars

\* the plan of any manifest
NextPlan ==
    /\ response.op = "none"
    /\ \E declared \in [1..Len(processing_order) -> Declarations],
          extra \in ExtraEntries :
          CreateProcessingPlan(ManifestOf(declared, extra))

SpecPlan == Init /\ [][NextPlan]_vars

\* ------------------------------------------------------------------ C27
\* the four checks, in the order of the claim
IsManifestObject(event) == event.has_name /\ EndsWithManifest(event.path)

HasThreeSegments(event) == Len(event.path) >= 3

ManifestIsValid(download) ==
    /\ download.ok
    /\ "load_id" \in DOMAIN download.content
    /\ "files" \in DOMAIN download.content
    /\ download.content.files_is_list
    /\ \A i \in 1..Len(download.content.files) :
           /\ "name" \in DOMAIN download.content.files[i]
           /\ "rows" \in DOMAIN download.content.files[i]
           /\ "sha256" \in DOMAIN download.content.files[i]

AllRequiredFilesExist(present) ==
    \A e \in Entities : FileName(e) \in present

\* C27: process_gcs_event launches an ETL job only after these checks have
\* passed, in this order: the object name ends with manifest.json, its path
\* has at least three segments, the manifest downloads and has load_id, a
\* files list and name, rows and sha256 on every entry, and the seven
\* required CSV files exist beside the manifest.  When a check fails no job
\* is launched and the status of the result is 'ignored' or 'error', the
\* reason being that of the first check that failed; an event launches at
\* most one job.
C27_LaunchOnlyAfterChecks ==
    [][ (response'.op = "process_gcs_event"
            /\ << jobs, response >>' # << jobs, response >>) =>
        LET r == response'
            first == IsManifestObject(r.event)
            second == first /\ HasThreeSegments(r.event)
            third == second /\ ManifestIsValid(r.download)
            fourth == third /\ AllRequiredFilesExist(r.present)
        IN  /\ \/ jobs' = jobs
               \/ /\ Len(jobs') = Len(jobs) + 1
                  /\ SubSeq(jobs', 1, Len(jobs)) = jobs
            /\ jobs' # jobs => fourth /\ r.result.status = "success"
            /\ r.result.status = "success" => jobs' # jobs
            /\ ~fourth =>
                   /\ jobs' = jobs
                   /\ r.result.status \in {"ignored", "error"}
            /\ (r.event.has_name /\ ~first) =>
                   r.result = [status |-> "ignored", reason |-> "not_manifest_file"]
            /\ (first /\ ~second) =>
                   r.result = [status |-> "error", reason |-> "invalid_path_structure"]
            /\ (second /\ ~third) =>
                   r.result = [status |-> "error", reason |-> "invalid_manifest"]
            /\ (third /\ ~fourth) =>
                   r.result = [status |-> "error", reason |-> "missing_required_files"]
      ]_vars

\* an event passed the four checks and one job was launched for its load,
\* imports/p1/l1/manifest.json, with the rows of its plan
C27_Witness ==
    /\ response.op = "process_gcs_event"
    /\ response.result.status = "success"
    /\ Len(jobs) = 1
    /\ jobs[1].load_id = "l1"
    /\ jobs[1].total_rows > 0
    /\ AllRequiredFilesExist(response.present)

\* ------------------------------------------------------------------ C28
\* the rows a manifest declares for a file: those of the entry the plan
\* looks up; a file the manifest does not list is taken with 0 rows
DeclaredRows(manifest_data, filename) ==
    IF FileLookup(manifest_data.files, filename) = 0 THEN 0
    ELSE manifest_data.files[FileLookup(manifest_data.files, filename)].rows

\* the position of a file in the dependency order: customers, vehicles,
\* invoices, then line_items and payments, then inventory_parts and suppliers
DependencyLevel(filename) ==
    CASE filename = FileName("customers") -> 1
      [] filename = FileName("vehicles") -> 2
      [] filename = FileName("invoices") -> 3
      [] filename \in {FileName("line_items"), FileName("payments")} -> 4
      [] OTHER -> 5

\* the files of the groups, one group after the other
RECURSIVE GroupedFiles(_)
GroupedFiles(groups) ==
    IF groups = << >> THEN << >>
    ELSE Head(groups).group_files \o GroupedFiles(Tail(groups))

\* C28: _create_processing_plan puts each of the seven expected files in
\* exactly one of files_to_process and files_to_skip: in files_to_process
\* when the manifest declares more than 0 rows for it, in files_to_skip
\* when it declares 0 rows or does not list it.  total_rows is the sum of
\* the rows of files_to_process, and the processing groups hold exactly the
\* files to process, in dependency order, no group being empty.
C28_ProcessingPlan ==
    response.op = "_create_processing_plan" =>
        LET plan == response.result
            m == response.manifest_data
            groups == plan.processing_groups
        IN  /\ \A e \in Entities :
                   LET InProcess == { k \in 1..Len(plan.files_to_process) :
                                        plan.files_to_process[k].name = FileName(e) }
                       InSkip == { k \in 1..Len(plan.files_to_skip) :
                                     plan.files_to_skip[k].name = FileName(e) }
                   IN  /\ Cardinality(InProcess) + Cardinality(InSkip) = 1
                       /\ DeclaredRows(m, FileName(e)) > 0 <=> InProcess # {}
                       /\ \A k \in InProcess :
                              plan.files_to_process[k].rows
                                  = DeclaredRows(m, FileName(e))
            /\ Len(plan.files_to_process) + Len(plan.files_to_skip)
                   = Cardinality(Entities)
            /\ plan.total_rows = SumOver(plan.files_to_process, "rows")
            /\ GroupedFiles(groups) = plan.files_to_process
            /\ \A g \in 1..Len(groups) :
                   /\ groups[g].group_files # << >>
                   /\ \A k \in 1..Len(groups[g].group_files) :
                          DependencyLevel(groups[g].group_files[k].name)
                              = DependencyLevel(groups[g].group_files[1].name)
                   /\ g < Len(groups) =>
                          DependencyLevel(groups[g].group_files[1].name)
                              < DependencyLevel(groups[g + 1].group_files[1].name)
            /\ \A k \in 1..Len(plan.files_to_process) :
                   k < Len(plan.files_to_process) =>
                       DependencyLevel(plan.files_to_process[k].name)
                           <= DependencyLevel(plan.files_to_process[k + 1].name)

\* customers and payments are processed, a file declares 0 rows and a file
\* is not listed: two groups
C28_Witness ==
    /\ response.op = "_create_processing_plan"
    /\ Len(response.result.files_to_process) = 2
    /\ response.result.files_to_process[1].name = FileName("customers")
    /\ response.result.files_to_process[2].name = FileName("payments")
    /\ Len(response.result.processing_groups) = 2
    /\ response.result.total_rows = MaxRows + 1
    /\ \E k \in 1..Len(response.result.files_to_skip) :
           response.result.files_to_skip[k].status = "skip_empty"
    /\ \E k \in 1..Len(response.result.files_to_skip) :
           response.result.files_to_skip[k].status = "missing"

====
